---- MODULE Spec2Model ----
(***************************************************************************)
(* Model of the deployment decision engine of the Huawei network           *)
(* automation suite: DeploymentOrchestrator (deployment_orchestrator.py),  *)
(* the parts of TemplateEngine (template_engine.py) and DeviceManager      *)
(* (device_manager.py) it drives, and the connection bookkeeping of        *)
(* DeviceManager itself.                                                   *)
(*                                                                         *)
(* Optional Python values (None / missing dictionary key) are sequences of *)
(* length 0 or 1: <<>> is None/absent, <<v>> is the value v.               *)
(***************************************************************************)
EXTENDS Integers, Sequences, FiniteSets, TLC

VARIABLES
    disk,                \* content of the inventory file "inventory.yaml"
    templateDir,         \* template directory: file name -> status
    budget,              \* operations the caller may still start
    inventory,           \* self.inventory
    devices,             \* self.devices
    deployment_history,  \* self.deployment_history
    current_deployment,  \* self.current_deployment (<<>> is None)
    connections,         \* DeviceManager.connections (device names)
    connection_status,   \* DeviceManager.connection_status, kept where the
                         \* manager's own methods are followed (SpecManager)
    template_cache,      \* TemplateEngine.template_cache (template names)
    pc,                  \* "idle", or "running" inside deploy_all_devices
    run,                 \* locals of the deploy_all_devices in progress
    calls,               \* calls made by the current / last invocation
    ret,                 \* what the last finished invocation returned
    caller               \* what the calling code holds on to

vars == <<disk, templateDir, budget, inventory, devices, deployment_history,
          current_deployment, connections, connection_status, template_cache,
          pc, run, calls, ret, caller>>

envVars == <<disk, templateDir>>
orchVars == <<inventory, devices, deployment_history, current_deployment>>
collabVars == <<connections, connection_status, template_cache>>

-----------------------------------------------------------------------------
(* Bounds of the model *)

MaxDevices == 2
MaxLoads == 2
MaxCalls == 1
MaxRuns == 2
MaxEdits == 1
MaxValidations == 2
MaxSummaryDevices == 4
MaxManagerCalls == 3

-----------------------------------------------------------------------------
(* Program constants *)

DefaultOrder == 999

\* ConnectionConfig.max_retries
max_retries == 3

-----------------------------------------------------------------------------
(* Optional values *)

None == <<>>
Some(v) == <<v>>
OptBool == {None, Some(TRUE), Some(FALSE)}

\* a YAML setting: key absent, or present with the scalar true, false or
\* null (a key written without a value)
Flags == {None, Some("true"), Some("false")}
NullFlag == Some("null")

\* Python truth of a YAML scalar: `if dry_run`, `if not dry_run`
Truthy(v) == v = "true"

\* dict.get(key, default) on an optional entry: a key that is present yields
\* its value
GetOr(opt, default) == IF opt = None THEN default ELSE opt[1]

-----------------------------------------------------------------------------
(* Inventory source *)

NameAt(i) == "d" \o ToString(i)

TemplateFiles == {"core_switch.j2", "access_switch.j2"}

\* device entries an inventory file may declare (the name is the key of the
\* entry): complete, without ip, without template, with a role whose template
\* is not the named one, with a role that has no template, with a role that
\* is a YAML list
Good == [ip |-> "10.0.0.1", template |-> "core_switch", role |-> "core"]
NoIp == [Good EXCEPT !.ip = ""]
NoTemplate == [Good EXCEPT !.template = ""]
OtherRole == [Good EXCEPT !.role = "access"]
UnknownRole == [Good EXCEPT !.role = "bogus"]
ListRole == [Good EXCEPT !.role = "<list>"]

RunProfiles == {Good, NoIp, NoTemplate, OtherRole}
DeviceProfiles == RunProfiles \cup {UnknownRole, ListRole}

Entries(profiles, orders) ==
    { [ip |-> p.ip, template |-> p.template, role |-> p.role,
       deployment_order |-> o, device_type |-> None, template_name |-> None]
      : p \in profiles, o \in orders }

DeviceLists(entries, n) == UNION { [1..k -> entries] : k \in 0..n }

\* a YAML document that parses to a mapping
Mapping(devs, dflt, rb) ==
    [kind |-> "mapping", has_devices |-> TRUE, devs |-> devs,
     dry_run_default |-> dflt, rollback_on_failure |-> rb]

NoFile == [kind |-> "absent", has_devices |-> FALSE, devs |-> <<>>,
           dry_run_default |-> None, rollback_on_failure |-> None]
BrokenFile == [NoFile EXCEPT !.kind = "yaml_error"]
EmptyFile == [NoFile EXCEPT !.kind = "empty"]
NoDevicesFile(dflt, rb) ==
    [kind |-> "mapping", has_devices |-> FALSE, devs |-> <<>>,
     dry_run_default |-> dflt, rollback_on_failure |-> rb]

\* inventories of the sequencer runs: every list of profiles under each
\* rollback setting, every pair of settings over a single complete device,
\* and lists with and without a deployment order
RunFiles ==
    { Mapping(devs, None, rb) :
        devs \in DeviceLists(Entries(RunProfiles, {None}), MaxDevices),
        rb \in OptBool }
    \cup
    { Mapping(devs, dflt, rb) :
        devs \in DeviceLists(Entries({Good}, {None}), 1),
        dflt \in Flags, rb \in OptBool }
    \cup
    { Mapping(devs, None, None) :
        devs \in DeviceLists(Entries({Good, NoIp}, {None, Some(1)}),
                             MaxDevices) }

\* inventories of the direct deploy_device calls: a single device of any
\* kind under each dry_run_default, and a complete device under
\* "dry_run_default:" without a value
DeviceFiles ==
    { Mapping(devs, dflt, None) :
        devs \in DeviceLists(Entries(DeviceProfiles, {None}), 1),
        dflt \in Flags }
    \cup
    { Mapping(devs, NullFlag, None) :
        devs \in [1..1 -> Entries({Good}, {None})] }

\* inventories of the ordering checks
SortFiles ==
    { Mapping(devs, None, None) :
        devs \in DeviceLists(Entries({Good}, {None, Some(1), Some(2)}),
                             MaxDevices + 1) }

Paths == {"inventory.yaml", "missing.yaml", "broken.yaml", "empty.yaml",
          "nodevices.yaml"}

\* a further inventory whose devices section is empty
MorePaths == Paths \cup {"fresh.yaml"}

FileAt(path) ==
    CASE path = "inventory.yaml" -> disk
      [] path = "missing.yaml"   -> NoFile
      [] path = "broken.yaml"    -> BrokenFile
      [] path = "empty.yaml"     -> EmptyFile
      [] path = "fresh.yaml"     -> Mapping(<<>>, None, None)
      [] OTHER                   -> NoDevicesFile(Some("false"), Some(FALSE))

TemplateDirs ==
    UNION { [S -> {"valid", "syntax_error"}] : S \in SUBSET TemplateFiles }

-----------------------------------------------------------------------------
(* load_inventory and the deployment sequence *)

OrderKey(d) == GetOr(d.deployment_order, DefaultOrder)

\* variant: an insertion that puts a device before its equals
RECURSIVE InsertByKeyStrict(_, _)
InsertByKeyStrict(s, d) ==
    IF s = <<>> THEN <<d>>
    ELSE IF OrderKey(s[Len(s)]) < OrderKey(d) THEN Append(s, d)
    ELSE Append(InsertByKeyStrict(SubSeq(s, 1, Len(s) - 1), d), s[Len(s)])

\* list.sort / sorted with a key: stable, ascending
RECURSIVE InsertByKey(_, _)
InsertByKey(s, d) ==
    IF s = <<>> THEN <<d>>
    ELSE IF OrderKey(s[Len(s)]) <= OrderKey(d) THEN Append(s, d)
    ELSE Append(InsertByKey(SubSeq(s, 1, Len(s) - 1), d), s[Len(s)])

RECURSIVE SortByOrder(_)
SortByOrder(s) ==
    IF s = <<>> THEN <<>>
    ELSE InsertByKey(SortByOrder(SubSeq(s, 1, Len(s) - 1)), s[Len(s)])

\* for device_name, device_config in inventory['devices'].items():
\*     device_config['name'] = device_name
NamedDevices(devs) ==
    [i \in 1..Len(devs) |->
        [name |-> NameAt(i), ip |-> devs[i].ip, template |-> devs[i].template,
         role |-> devs[i].role, deployment_order |-> devs[i].deployment_order,
         device_type |-> devs[i].device_type,
         template_name |-> devs[i].template_name]]

EmptyInventory ==
    [kind |-> "dict", has_devices |-> FALSE, devnames |-> <<>>,
     dry_run_default |-> None, rollback_on_failure |-> None]

\* self.inventory = yaml.safe_load(f)
ParsedInventory(file) ==
    IF file.kind = "empty"
    THEN [EmptyInventory EXCEPT !.kind = "none"]
    ELSE [kind |-> "dict", has_devices |-> file.has_devices,
          devnames |-> [i \in 1..Len(file.devs) |-> NameAt(i)],
          dry_run_default |-> file.dry_run_default,
          rollback_on_failure |-> file.rollback_on_failure]

LoadedDevices(file) == SortByOrder(NamedDevices(file.devs))

\* the effect of load_inventory(path) on (inventory, devices) and its result
LoadOutcome(file, inv, devs) ==
    CASE file.kind \in {"absent", "yaml_error"} ->
            [inventory |-> inv, devices |-> devs, result |-> FALSE]
      [] file.kind = "empty" ->
            [inventory |-> ParsedInventory(file), devices |-> devs,
             result |-> FALSE]
      [] file.kind = "mapping" /\ ~file.has_devices ->
            [inventory |-> ParsedInventory(file), devices |-> devs,
             result |-> FALSE]
      [] OTHER ->
            [inventory |-> ParsedInventory(file),
             devices |-> LoadedDevices(file), result |-> TRUE]

\* variant: a sequence that lists every device twice
get_deployment_sequence_twice(devs) == SortByOrder(devs) \o SortByOrder(devs)

\* sorted(self.devices, key=...)
get_deployment_sequence(devs) == SortByOrder(devs)

-----------------------------------------------------------------------------
(* Results *)

DeviceResult(name, status, message, lines, error) ==
    [device_name |-> name, status |-> status, message |-> message,
     config_lines |-> lines, error |-> error]

\* a call made during an invocation: what was called, for which device, with
\* which argument, and what came back
Call(op, dev, arg, res) == [op |-> op, dev |-> dev, arg |-> arg, res |-> res]

-----------------------------------------------------------------------------
(* TemplateEngine *)

\* validate_template_syntax: a file that is not there, or does not render
\* with the canonical variables, is not valid
validate_template_syntax(dir, t) ==
    IF t \notin DOMAIN dir
    THEN [valid |-> FALSE, error |-> "Template file not found: " \o t]
    ELSE IF dir[t] = "valid" THEN [valid |-> TRUE, error |-> ""]
    ELSE [valid |-> FALSE, error |-> "Syntax error"]

\* validate_all_templates: one result per *.j2 file of the directory
validate_all_templates(dir) ==
    [t \in DOMAIN dir |-> validate_template_syntax(dir, t)]

\* template_mapping.get(device_type)
template_mapping(role) ==
    CASE role = "core"   -> Some("core_switch.j2")
      [] role = "access" -> Some("access_switch.j2")
      [] role = "management" -> Some("management_switch.j2")
      [] role \in {"edge", "router"} -> Some("edge_router.j2")
      [] OTHER           -> None

\* a role that is a YAML list cannot be looked up: TypeError
Unhashable(role) == role = "<list>"

\* get_template: the cache first, then the loader
get_template(dir, cache, t) ==
    IF t \in cache THEN [found |-> TRUE, cache |-> cache]
    ELSE IF t \in DOMAIN dir /\ dir[t] = "valid"
         THEN [found |-> TRUE, cache |-> cache \cup {t}]
         ELSE [found |-> FALSE, cache |-> cache]

\* the text a template renders to for a device ("" lines are blank)
RenderedText(d) == <<"sysname " \o d.name, "", "return">>

\* render_template: None unless the template is found and renders
RenderOutcomes == {"text", "undefined"}
render_template(dir, cache, t, d, outcome) ==
    LET g == get_template(dir, cache, t) IN
    [config |-> IF g.found /\ outcome = "text" THEN Some(RenderedText(d))
                ELSE None,
     cache |-> g.cache]

\* values of template variables: a scalar, a YAML null, or a container given
\* by its entries (Empty: a dictionary or list without entries)
Scalar(v) == [scalar |-> v]
Null == [null |-> TRUE]
Empty == <<>>
IsContainer(v) == DOMAIN v \cap {"scalar", "null"} = {}

\* the defaults of _prepare_variables
defaults ==
    [hostname |-> Scalar("DEVICE"),
     device_name |-> Scalar("device"),
     management_ip |-> Scalar("192.168.1.1"),
     vlans |-> Empty,
     interfaces |-> Empty,
     port_config |-> Empty,
     stp |-> [mode |-> Scalar("rstp"), priority |-> Scalar("32768")],
     routing |-> [ospf |-> [process_id |-> Scalar("1"),
                            router_id |-> Scalar("1.1.1.1"),
                            area |-> Scalar("0"),
                            networks |-> Empty],
                  static_routes |-> Empty],
     nat |-> [inside_interfaces |-> Empty, outside_interfaces |-> Empty],
     features |-> Empty,
     mgmt_vlan |-> Scalar("10"),
     generation_time |-> Scalar("2025-09-01 12:00:00"),
     template_name |-> Scalar("unknown")]

\* variant: a caller's dictionary is completed from the default dictionary
\* of the same key
prepare_variables_deep(variables) ==
    [prepared |->
        [k \in DOMAIN variables \cup DOMAIN defaults |->
            IF k \notin DOMAIN variables THEN defaults[k]
            ELSE IF k \in DOMAIN defaults /\ IsContainer(variables[k])
                    /\ IsContainer(defaults[k])
                 THEN variables[k] @@ defaults[k]
                 ELSE variables[k]],
     variables |-> variables]

\* _prepare_variables(variables): prepared = variables.copy(), then every
\* default whose key is not in prepared is added; what it returns, and the
\* caller's dictionary afterwards
prepare_variables(variables) ==
    [prepared |->
        [k \in DOMAIN variables \cup DOMAIN defaults |->
            IF k \in DOMAIN variables THEN variables[k] ELSE defaults[k]],
     variables |-> variables]

\* generate_config(role, device_vars): writes template_name and device_type
\* into the caller's dictionary before rendering
generate_config(dir, cache, d, outcome) ==
    LET t == template_mapping(d.role) IN
    IF Unhashable(d.role)
    THEN [raised |-> TRUE, config |-> None, cache |-> cache, device |-> d,
          template |-> ""]
    ELSE IF t = None
    THEN [raised |-> FALSE, config |-> None, cache |-> cache, device |-> d,
          template |-> ""]
    ELSE LET d2 == [d EXCEPT !.template_name = t, !.device_type = Some(d.role)]
             r == render_template(dir, cache, t[1], d2, outcome)
         IN [raised |-> FALSE, config |-> r.config, cache |-> r.cache,
             device |-> d2, template |-> t[1]]

\* len([line for line in config.split('\n') if line.strip()])
RECURSIVE CountLines(_)
CountLines(text) ==
    IF text = <<>> THEN 0
    ELSE (IF Head(text) = "" THEN 0 ELSE 1) + CountLines(Tail(text))

-----------------------------------------------------------------------------
(* DeviceManager, as far as the orchestrator drives it *)

ConnectOutcomes == {"true", "false", "raise"}
DeployOutcomes == {"true", "false", "raise"}
DisconnectOutcomes == {"true", "raise"}
ExcMessages == {"collaborator fault", ""}

AllOutcomes ==
    [connect : ConnectOutcomes, render : RenderOutcomes,
     deploy : DeployOutcomes, disconnect : DisconnectOutcomes,
     message : ExcMessages]

\* one record per distinguishable behaviour: a call that is not reached once
\* an earlier call has failed is fixed to its first listed outcome
Raises(o) == "raise" \in {o.connect, o.deploy, o.disconnect}
Outcomes ==
    { o \in AllOutcomes :
        /\ o.connect # "true" => o.render = "text"
        /\ (o.connect # "true" \/ o.render # "text") => o.deploy = "true"
        /\ (o.connect # "true" \/ o.render # "text" \/ o.deploy = "raise")
              => o.disconnect = "true"
        /\ ~Raises(o) => o.message = "collaborator fault" }

\* the behaviours explored inside a run of the whole sequence
RunOutcomes == { o \in Outcomes : o.message = "collaborator fault" }

\* connect stores the session on success only
connect(conns, name, outcome) ==
    IF outcome = "true" THEN conns \cup {name} ELSE conns

\* disconnect drops the session (_cleanup_connection) whenever it returns
disconnect(conns, name, outcome) ==
    IF outcome = "raise" THEN conns ELSE conns \ {name}

-----------------------------------------------------------------------------
(* deploy_device *)

NoneTypeError == "'NoneType' object has no attribute 'get'"
UnhashableError == "unhashable type: 'list'"

\* self.inventory.get('global_settings', {}).get('dry_run_default', True),
\* as the conditions on dry_run read it
DryRunDefault(inv) == Truthy(GetOr(inv.dry_run_default, "true"))

\* variant: the skip policy is on whatever the inventory says
RollbackAlways(inv) == TRUE

\* variant: the skip policy is off whatever the inventory says
RollbackNever(inv) == FALSE

\* self.inventory.get('deployment_strategy', {}).get('rollback_on_failure', True)
RollbackOnFailure(inv) == GetOr(inv.rollback_on_failure, TRUE)

\* if dry_run is None: dry_run = <inventory default>
EffectiveDryRun(inv, dry_run) ==
    IF dry_run = None THEN DryRunDefault(inv) ELSE dry_run[1]

\* variant: the ip check never fires
MissingIpNever(d) == FALSE

\* if not device_ip / if not template_name
MissingIp(d) == d.ip = ""
MissingTemplate(d) == d.template = ""

\* variant: a Failed result that drops the error text
FailedWithoutError(name, message, lines, error) ==
    DeviceResult(name, "failed", message, lines, None)

Failed(name, message, lines, error) ==
    DeviceResult(name, "failed", message, lines, Some(error))

Success(name, lines) ==
    DeviceResult(name, "success",
                 "Successfully deployed " \o ToString(lines)
                     \o " configuration lines", lines, None)

\* what the body of deploy_device leaves behind: a result, or an exception
Outcome(result, d, dry, conns, cache, cs) ==
    [raised |-> FALSE, error |-> "", result |-> result, device |-> d,
     dry_run |-> dry, connections |-> conns, cache |-> cache, calls |-> cs]

Raise(error, name, d, dry, conns, cache, cs) ==
    [raised |-> TRUE, error |-> error,
     result |-> DeviceResult(name, "pending", "", 0, None), device |-> d,
     dry_run |-> dry, connections |-> conns, cache |-> cache, calls |-> cs]

\* variant: the transport collaborator is contacted in either mode
UsesTransportAlways(dry) == TRUE

\* if not dry_run: the transport collaborator is contacted
UsesTransport(dry) == ~dry

\* variant: the collaborator's answer decides in dry-run mode as well
deployment_success_transport(dry, o) == o.deploy = "true"

\* if dry_run: deployment_success = True
\* else: deployment_success = self.device_manager.deploy_config(...)
deployment_success(dry, o) == dry \/ o.deploy = "true"

\* the deployment proper and the result, once the configuration is there
DeployConfig(d, d2, lines, dry, conns, cache, o, cs) ==
    IF ~UsesTransport(dry)
    THEN Outcome(IF deployment_success(dry, o) THEN Success(d.name, lines)
                 ELSE Failed(d.name, "Configuration deployment failed", lines,
                             "Deployment execution failed"),
                 d2, Some(dry), conns, cache, cs)
    ELSE
    LET cs2 == cs \o <<Call("deploy_config", d.name, "", o.deploy)>> IN
    IF o.deploy = "raise"
    THEN Raise(o.message, d.name, d2, Some(dry), conns, cache, cs2)
    ELSE
    LET cs3 == cs2 \o <<Call("disconnect", d.name, "", o.disconnect)>>
        conns3 == disconnect(conns, d.name, o.disconnect)
    IN
    IF o.disconnect = "raise"
    THEN Raise(o.message, d.name, d2, Some(dry), conns3, cache, cs3)
    ELSE IF deployment_success(dry, o)
    THEN Outcome(Success(d.name, lines), d2, Some(dry), conns3, cache, cs3)
    ELSE Outcome(Failed(d.name, "Configuration deployment failed", lines,
                        "Deployment execution failed"),
                 d2, Some(dry), conns3, cache, cs3)

\* the part of deploy_device after the connection is up (or not needed)
DeployConnected(dir, d, dry, conns, cache, o, cs) ==
    LET g == generate_config(dir, cache, d, o.render)
        res == IF g.raised THEN "raise"
               ELSE IF g.config = None THEN "none" ELSE "text"
        cs1 == cs \o <<Call("generate_config", d.name, g.template, res)>>
    IN
    IF g.raised
    THEN Raise(UnhashableError, d.name, g.device, Some(dry), conns, g.cache,
               cs1)
    ELSE IF g.config = None
    THEN Outcome(Failed(d.name, "Failed to generate configuration", 0,
                        "Template rendering failed"),
                 g.device, Some(dry), conns, g.cache, cs1)
    ELSE DeployConfig(d, g.device, CountLines(g.config[1]), dry, conns,
                      g.cache, o, cs1)

\* variant: a try block that goes on to the configuration whatever connect
\* returned
DeployBodyUnchecked(inv, dir, d, dry_run, conns, cache, o) ==
    LET cs0 == <<Call("deploy_device", d.name, "", "")>> IN
    IF dry_run = None /\ inv.kind = "none"
    THEN Raise(NoneTypeError, d.name, d, None, conns, cache, cs0)
    ELSE
    LET dry == EffectiveDryRun(inv, dry_run) IN
    IF MissingIp(d)
    THEN Outcome(Failed(d.name, "No IP address specified", 0,
                        "Missing device IP address"),
                 d, Some(dry), conns, cache, cs0)
    ELSE IF MissingTemplate(d)
    THEN Outcome(Failed(d.name, "No template specified", 0,
                        "Missing template name"),
                 d, Some(dry), conns, cache, cs0)
    ELSE IF ~UsesTransport(dry)
    THEN DeployConnected(dir, d, dry, conns, cache, o, cs0)
    ELSE
    LET cs1 == cs0 \o <<Call("connect", d.name,
                             GetOr(d.device_type, "huawei"), o.connect)>>
        conns1 == connect(conns, d.name, o.connect)
    IN
    IF o.connect = "raise"
    THEN Raise(o.message, d.name, d, Some(dry), conns1, cache, cs1)
    ELSE DeployConnected(dir, d, dry, conns1, cache, o, cs1)

\* the try block of deploy_device
DeployBody(inv, dir, d, dry_run, conns, cache, o) ==
    LET cs0 == <<Call("deploy_device", d.name, "", "")>> IN
    IF dry_run = None /\ inv.kind = "none"
    THEN Raise(NoneTypeError, d.name, d, None, conns, cache, cs0)
    ELSE
    LET dry == EffectiveDryRun(inv, dry_run) IN
    IF MissingIp(d)
    THEN Outcome(Failed(d.name, "No IP address specified", 0,
                        "Missing device IP address"),
                 d, Some(dry), conns, cache, cs0)
    ELSE IF MissingTemplate(d)
    THEN Outcome(Failed(d.name, "No template specified", 0,
                        "Missing template name"),
                 d, Some(dry), conns, cache, cs0)
    ELSE IF ~UsesTransport(dry)
    THEN DeployConnected(dir, d, dry, conns, cache, o, cs0)
    ELSE
    LET cs1 == cs0 \o <<Call("connect", d.name,
                             GetOr(d.device_type, "huawei"), o.connect)>>
        conns1 == connect(conns, d.name, o.connect)
    IN
    IF o.connect = "raise"
    THEN Raise(o.message, d.name, d, Some(dry), conns1, cache, cs1)
    ELSE IF o.connect = "false"
    THEN Outcome(Failed(d.name, "Failed to connect to device", 0,
                        "SSH connection failed"),
                 d, Some(dry), conns1, cache, cs1)
    ELSE DeployConnected(dir, d, dry, conns1, cache, o, cs1)

\* except Exception as e: a Failed result carrying str(e)
Caught(body) ==
    [body EXCEPT !.raised = FALSE,
                 !.result = Failed(body.result.device_name,
                                   "Deployment failed with exception", 0,
                                   body.error)]

\* variant: deploy_device without its except clause
deploy_device_uncaught(inv, dir, d, dry_run, conns, cache, o) ==
    DeployBody(inv, dir, d, dry_run, conns, cache, o)

\* deploy_device(device_config, dry_run): dry_run is None, Some(TRUE) or
\* Some(FALSE); o fixes what the collaborators do when they are called
deploy_device(inv, dir, d, dry_run, conns, cache, o) ==
    LET body == DeployBody(inv, dir, d, dry_run, conns, cache, o) IN
    IF body.raised THEN Caught(body) ELSE body

-----------------------------------------------------------------------------
(* validate_templates and the results of deploy_all_devices *)

\* the templates used by devices: template field plus ".j2"
used_templates(devs) ==
    { devs[i].template \o ".j2" : i \in { j \in 1..Len(devs) : devs[j].template # "" } }

\* validate_templates: True without validating when no device names a
\* template, else whether every template of the directory is valid
validate_templates(devs, dir) ==
    IF used_templates(devs) = {} THEN TRUE
    ELSE LET results == validate_all_templates(dir)
         IN \A t \in DOMAIN results : results[t].valid

DeploymentResult(total, successful, failed, skipped, results, summary) ==
    [total_devices |-> total, successful |-> successful, failed |-> failed,
     skipped |-> skipped, results |-> results, summary |-> summary]

\* variant: the rate cut off after the first decimal
RateTenthsTruncated(successful, total) == (successful * 1000) \div total

\* f"{x:.1f}" of successful / total * 100: tenths, rounded half to even
RateTenths(successful, total) ==
    LET q == (successful * 1000) \div total
        r == (successful * 1000) % total
    IN IF 2 * r > total \/ (2 * r = total /\ q % 2 = 1) THEN q + 1 ELSE q

Summary(successful, total) ==
    LET t == RateTenths(successful, total) IN
    ToString(successful) \o "/" \o ToString(total)
        \o " devices deployed successfully (" \o ToString(t \div 10) \o "."
        \o ToString(t % 10) \o "%)"

\* variant: the empty inventory reported as an aborted validation
NoDevicesResultAborted ==
    DeploymentResult(0, 0, 0, 0, <<>>,
                     "Template validation failed - deployment aborted")

NoDevicesResult == DeploymentResult(0, 0, 0, 0, <<>>, "No devices to deploy")

\* variant: the devices of an aborted run counted as skipped, not failed
AbortedResultSkipped(n) ==
    DeploymentResult(n, 0, 0, n, <<>>,
                     "Template validation failed - deployment aborted")

AbortedResult(n) ==
    DeploymentResult(n, 0, n, 0, <<>>,
                     "Template validation failed - deployment aborted")

\* variant: a device that is passed over is recorded as failed
SkippedResultAsFailed(name) ==
    DeviceResult(name, "failed",
                 "Skipped due to previous deployment failures", 0, None)

SkippedResult(name) ==
    DeviceResult(name, "skipped",
                 "Skipped due to previous deployment failures", 0, None)

-----------------------------------------------------------------------------
(* State machine *)

IdleRun == [dry_run |-> TRUE, seq |-> <<>>, idx |-> 0, results |-> <<>>,
            successful |-> 0, failed |-> 0, skipped |-> 0]

\* what an invocation returned: the operation, its dry_run argument, the
\* effective dry-run mode, the return statement taken ("empty", "gate",
\* "end"), whether an exception escaped instead, and the value
NoReturn == [op |-> "none", arg |-> None, dry_run |-> None, exit |-> "",
             raised |-> FALSE, ok |-> FALSE, result |-> None,
             device_result |-> None, sequence |-> <<>>, status |-> None,
             validation |-> None, variables |-> None, prepared |-> None]

Returned(op) == [NoReturn EXCEPT !.op = op]

\* what the calling code holds: the list an accessor returned to it (value:
\* the list as returned, with the caller's own changes since), whether that
\* list and its items are the orchestrator's own objects, how often the
\* caller has changed it, the result the last deploy_all_devices returned,
\* the result of the last one that went through its whole sequence, how
\* often it has called validate_all_templates and what the last of these
\* calls found in the template directory and returned (repeated: the call
\* before it had found the same files)
NoCaller == [holds |-> "nothing", value |-> <<>>, same_list |-> FALSE,
             same_items |-> FALSE, edits |-> 0, last_result |-> None,
             last_full |-> None, validations |-> 0,
             last_validation |-> None]

\* the dictionary of the named device in the orchestrator's list
DeviceNamed(devs, name) ==
    devs[CHOOSE i \in 1..Len(devs) : devs[i].name = name]

\* the device list the calling code sees when it reads the list it holds:
\* the orchestrator's list if it is the same object, else its own list, whose
\* items are the orchestrator's dictionaries as long as they are shared
Seen ==
    IF caller.holds # "devices" THEN <<>>
    ELSE IF caller.same_list THEN devices
    ELSE [i \in 1..Len(caller.value) |->
            IF caller.same_items
            THEN DeviceNamed(devices, caller.value[i].name)
            ELSE caller.value[i]]

\* a successful load builds a new list of new dictionaries: what the caller
\* holds is no longer part of the orchestrator
Detached(loaded) ==
    IF loaded /\ caller.holds = "devices"
    THEN [caller EXCEPT !.value = Seen, !.same_list = FALSE,
                        !.same_items = FALSE]
    ELSE caller

\* the orchestrator as constructed, without an inventory path
InitOrchestrator ==
    /\ inventory = EmptyInventory
    /\ devices = <<>>
    /\ deployment_history = <<>>
    /\ current_deployment = None
    /\ connections = {}
    /\ connection_status = <<>>
    /\ template_cache = {}
    /\ pc = "idle"
    /\ run = IdleRun
    /\ calls = <<>>
    /\ ret = NoReturn
    /\ caller = NoCaller

\* load_inventory(path)
LoadInventory(path) ==
    /\ pc = "idle"
    /\ budget.loads > 0
    /\ LET out == LoadOutcome(FileAt(path), inventory, devices) IN
        /\ inventory' = out.inventory
        /\ devices' = out.devices
        /\ ret' = [Returned("load_inventory") EXCEPT !.ok = out.result]
        /\ caller' = Detached(out.result)
    /\ budget' = [budget EXCEPT !.loads = @ - 1]
    /\ calls' = <<>>
    /\ UNCHANGED <<envVars, deployment_history, current_deployment,
                   collabVars, pc, run>>

\* deploy_all_devices(dry_run) up to the start of the loop
StartRun(dry_run) ==
    /\ pc = "idle"
    /\ budget.runs > 0
    /\ budget' = [budget EXCEPT !.runs = @ - 1,
                                !.loads = IF budget.runs > 1 THEN @ ELSE 0]
    /\ IF devices = <<>>
       THEN /\ ret' = [Returned("deploy_all_devices") EXCEPT
                          !.arg = dry_run, !.exit = "empty",
                          !.result = Some(NoDevicesResult)]
            /\ calls' = <<>>
            /\ UNCHANGED <<pc, run>>
       ELSE IF dry_run = None /\ inventory.kind = "none"
       THEN /\ ret' = [Returned("deploy_all_devices") EXCEPT
                          !.arg = dry_run, !.raised = TRUE]
            /\ calls' = <<>>
            /\ UNCHANGED <<pc, run>>
       ELSE IF ~validate_templates(devices, templateDir)
       THEN /\ ret' = [Returned("deploy_all_devices") EXCEPT
                          !.arg = dry_run, !.exit = "gate",
                          !.dry_run =
                              Some(EffectiveDryRun(inventory, dry_run)),
                          !.result = Some(AbortedResult(Len(devices)))]
            /\ calls' = <<Call("validate_templates", "", "", "false")>>
            /\ UNCHANGED <<pc, run>>
       ELSE /\ pc' = "running"
            /\ run' = [IdleRun EXCEPT
                         !.dry_run = EffectiveDryRun(inventory, dry_run),
                         !.seq = get_deployment_sequence(devices),
                         !.idx = 1]
            /\ calls' = <<Call("validate_templates", "", "", "true")>>
            /\ ret' = [NoReturn EXCEPT !.arg = dry_run]
    /\ caller' = [caller EXCEPT
                    !.last_result = IF ret'.result = None THEN @
                                    ELSE ret'.result]
    /\ UNCHANGED <<envVars, orchVars, collabVars>>

\* the device dictionaries are shared between self.devices and the sequence
Replace(devs, d) ==
    [i \in 1..Len(devs) |-> IF devs[i].name = d.name THEN d ELSE devs[i]]

\* variant: the gate closes one failure late
SkipGateLate(inv, failed) == RollbackOnFailure(inv) /\ failed > 1

\* if rollback_on_failure and failed > 0
SkipGate(inv, failed) == RollbackOnFailure(inv) /\ failed > 0

\* variant: a loop that marks the devices already deployed as rolled back
\* when a device fails
StepRunCompensating(o) ==
    /\ pc = "running"
    /\ run.idx <= Len(run.seq)
    /\ inventory.kind # "none"
    /\ LET d == run.seq[run.idx] IN
       IF RollbackOnFailure(inventory) /\ run.failed > 0
       THEN /\ run' = [run EXCEPT
                         !.results = (d.name :> SkippedResult(d.name)) @@ @,
                         !.skipped = @ + 1,
                         !.idx = @ + 1]
            /\ UNCHANGED <<pc, ret, calls, devices, collabVars>>
       ELSE LET out == deploy_device(inventory, templateDir, d,
                                     Some(run.dry_run), connections,
                                     template_cache, o)
                ok == out.result.status = "success"
                undone == [n \in DOMAIN run.results |->
                             IF run.results[n].status = "success"
                             THEN [run.results[n] EXCEPT
                                      !.status = "rolled_back"]
                             ELSE run.results[n]]
            IN
            /\ devices' = Replace(devices, out.device)
            /\ connections' = out.connections
            /\ template_cache' = out.cache
            /\ UNCHANGED connection_status
            /\ calls' = calls \o out.calls
            /\ run' = [run EXCEPT
                         !.results = (d.name :> out.result)
                                        @@ (IF ok THEN @ ELSE undone),
                         !.successful = IF ok THEN @ + 1 ELSE @,
                         !.failed = IF ok THEN @ ELSE @ + 1,
                         !.seq = Replace(@, out.device),
                         !.idx = @ + 1]
            /\ UNCHANGED <<pc, ret>>
    /\ UNCHANGED <<envVars, budget, inventory, deployment_history,
                   current_deployment, caller>>

\* variant: a loop that opens the connection to the next device while the
\* result of the current one is still to be recorded
StepRunPipelined(o) ==
    /\ pc = "running"
    /\ run.idx <= Len(run.seq)
    /\ inventory.kind # "none"
    /\ LET d == run.seq[run.idx] IN
       IF RollbackOnFailure(inventory) /\ run.failed > 0
       THEN /\ run' = [run EXCEPT
                         !.results = (d.name :> SkippedResult(d.name)) @@ @,
                         !.skipped = @ + 1,
                         !.idx = @ + 1]
            /\ UNCHANGED <<pc, ret, calls, devices, collabVars>>
       ELSE LET out == deploy_device(inventory, templateDir, d,
                                     Some(run.dry_run), connections,
                                     template_cache, o)
                ok == out.result.status = "success"
                ahead == IF run.idx < Len(run.seq) /\ ~run.dry_run
                         THEN <<Call("connect", run.seq[run.idx + 1].name,
                                     "huawei", "true")>>
                         ELSE <<>>
            IN
            /\ devices' = Replace(devices, out.device)
            /\ connections' = out.connections
            /\ template_cache' = out.cache
            /\ UNCHANGED connection_status
            /\ calls' = calls \o ahead \o out.calls
            /\ run' = [run EXCEPT
                         !.results = (d.name :> out.result) @@ @,
                         !.successful = IF ok THEN @ + 1 ELSE @,
                         !.failed = IF ok THEN @ ELSE @ + 1,
                         !.seq = Replace(@, out.device),
                         !.idx = @ + 1]
            /\ UNCHANGED <<pc, ret>>
    /\ UNCHANGED <<envVars, budget, inventory, deployment_history,
                   current_deployment, caller>>

\* one iteration of the loop of deploy_all_devices
StepRun(o) ==
    /\ pc = "running"
    /\ run.idx <= Len(run.seq)
    /\ LET d == run.seq[run.idx] IN
       IF inventory.kind = "none"
       THEN /\ pc' = "idle"
            /\ ret' = [Returned("deploy_all_devices") EXCEPT
                          !.arg = ret.arg, !.raised = TRUE,
                          !.dry_run = Some(run.dry_run)]
            /\ UNCHANGED <<run, calls, devices, collabVars>>
       ELSE IF SkipGate(inventory, run.failed)
       THEN /\ run' = [run EXCEPT
                         !.results = (d.name :> SkippedResult(d.name)) @@ @,
                         !.skipped = @ + 1,
                         !.idx = @ + 1]
            /\ UNCHANGED <<pc, ret, calls, devices, collabVars>>
       ELSE LET out == deploy_device(inventory, templateDir, d,
                                     Some(run.dry_run), connections,
                                     template_cache, o)
                ok == out.result.status = "success"
            IN
            /\ devices' = Replace(devices, out.device)
            /\ connections' = out.connections
            /\ template_cache' = out.cache
            /\ UNCHANGED connection_status
            /\ calls' = calls \o out.calls
            /\ IF out.raised
               THEN /\ pc' = "idle"
                    /\ ret' = [Returned("deploy_all_devices") EXCEPT
                                  !.arg = ret.arg, !.raised = TRUE,
                                  !.dry_run = Some(run.dry_run)]
                    /\ run' = [run EXCEPT !.seq = Replace(@, out.device)]
               ELSE /\ run' = [run EXCEPT
                                 !.results = (d.name :> out.result) @@ @,
                                 !.successful = IF ok THEN @ + 1 ELSE @,
                                 !.failed = IF ok THEN @ ELSE @ + 1,
                                 !.seq = Replace(@, out.device),
                                 !.idx = @ + 1]
                    /\ UNCHANGED <<pc, ret>>
    /\ UNCHANGED <<envVars, budget, inventory, deployment_history,
                   current_deployment, caller>>

\* variant: a run that returns its result without storing it
FinishRunUnrecorded ==
    /\ pc = "running"
    /\ run.idx > Len(run.seq)
    /\ LET result == DeploymentResult(Len(devices), run.successful, run.failed,
                                      run.skipped, run.results,
                                      Summary(run.successful, Len(devices)))
       IN /\ ret' = [Returned("deploy_all_devices") EXCEPT
                        !.arg = ret.arg, !.exit = "end",
                        !.dry_run = Some(run.dry_run),
                        !.result = Some(result)]
          /\ caller' = [caller EXCEPT !.last_result = Some(result),
                                      !.last_full = Some(result)]
    /\ pc' = "idle"
    /\ UNCHANGED <<envVars, budget, orchVars, collabVars, calls, run>>

\* the end of deploy_all_devices: summary, history, return
FinishRun ==
    /\ pc = "running"
    /\ run.idx > Len(run.seq)
    /\ LET result == DeploymentResult(Len(devices), run.successful, run.failed,
                                      run.skipped, run.results,
                                      Summary(run.successful, Len(devices)))
       IN /\ deployment_history' = Append(deployment_history, result)
          /\ current_deployment' = Some(result)
          /\ ret' = [Returned("deploy_all_devices") EXCEPT
                        !.arg = ret.arg, !.exit = "end",
                        !.dry_run = Some(run.dry_run),
                        !.result = Some(result)]
          /\ caller' = [caller EXCEPT !.last_result = Some(result),
                                      !.last_full = Some(result)]
    /\ pc' = "idle"
    /\ UNCHANGED <<envVars, budget, inventory, devices, collabVars, calls,
                   run>>

\* deploy_device called directly on a loaded device
DeployDevice(i, dry_run, o) ==
    /\ pc = "idle"
    /\ budget.calls > 0
    /\ i \in 1..Len(devices)
    /\ budget' = [budget EXCEPT !.calls = @ - 1, !.loads = 0]
    /\ LET out == deploy_device(inventory, templateDir, devices[i], dry_run,
                                connections, template_cache, o)
       IN /\ devices' = Replace(devices, out.device)
          /\ connections' = out.connections
          /\ template_cache' = out.cache
          /\ UNCHANGED connection_status
          /\ calls' = out.calls
          /\ ret' = IF out.raised
                    THEN [Returned("deploy_device") EXCEPT
                             !.arg = dry_run, !.raised = TRUE,
                             !.dry_run = out.dry_run]
                    ELSE [Returned("deploy_device") EXCEPT
                             !.arg = dry_run, !.exit = "end",
                             !.dry_run = out.dry_run,
                             !.device_result = Some(out.result)]
    /\ UNCHANGED <<envVars, inventory, deployment_history, current_deployment,
                   pc, run, caller>>

\* get_deployment_sequence()
GetDeploymentSequence ==
    /\ pc = "idle"
    /\ ret.op # "get_deployment_sequence"
    /\ ret' = [Returned("get_deployment_sequence") EXCEPT
                  !.sequence = get_deployment_sequence(devices)]
    /\ calls' = <<>>
    /\ UNCHANGED <<envVars, budget, orchVars, collabVars, pc, run, caller>>

\* get_devices(): self.devices.copy(), a new list of the same dictionaries
get_devices(devs) ==
    [value |-> devs, same_list |-> FALSE, same_items |-> TRUE]

GetDevices ==
    /\ pc = "idle"
    /\ caller.holds = "nothing"
    /\ LET got == get_devices(devices) IN
          caller' = [caller EXCEPT !.holds = "devices",
                                   !.value = got.value,
                                   !.same_list = got.same_list,
                                   !.same_items = got.same_items]
    /\ ret' = Returned("get_devices")
    /\ calls' = <<>>
    /\ UNCHANGED <<envVars, budget, orchVars, collabVars, pc, run>>

\* the calling code sets a field of an item of the list it was given
\* (devices[i]['deployment_order'] = 0); the orchestrator's dictionary
\* follows when it is the same object
CallerEditsDevice(i) ==
    /\ pc = "idle"
    /\ caller.holds = "devices"
    /\ caller.edits < MaxEdits
    /\ i \in 1..Len(caller.value)
    /\ caller.value[i].deployment_order # Some(0)
    /\ caller' = [caller EXCEPT
                    !.value[i].deployment_order = Some(0),
                    !.edits = @ + 1]
    /\ devices' =
          IF caller.same_items
          THEN Replace(devices,
                       [DeviceNamed(devices, caller.value[i].name)
                           EXCEPT !.deployment_order = Some(0)])
          ELSE devices
    /\ UNCHANGED <<envVars, budget, inventory, deployment_history,
                   current_deployment, collabVars, pc, run, calls, ret>>

\* the calling code removes the last item of the list it was given
\* (devices.pop()); the orchestrator's list follows when it is the same
\* object
CallerPopsDevice ==
    /\ pc = "idle"
    /\ caller.holds = "devices"
    /\ caller.edits < MaxEdits
    /\ caller.value # <<>>
    /\ caller' = [caller EXCEPT
                    !.value = SubSeq(@, 1, Len(@) - 1),
                    !.edits = @ + 1]
    /\ devices' =
          IF caller.same_list
          THEN SubSeq(devices, 1, Len(devices) - 1)
          ELSE devices
    /\ UNCHANGED <<envVars, budget, inventory, deployment_history,
                   current_deployment, collabVars, pc, run, calls, ret>>

\* variant: a status that never reports a run
get_deployment_status_none(current) == None

\* get_deployment_status(): None, or the counts and summary of
\* current_deployment (execution_time and timestamp are left out)
get_deployment_status(current) ==
    IF current = None THEN None
    ELSE Some([total_devices |-> current[1].total_devices,
               successful |-> current[1].successful,
               failed |-> current[1].failed,
               skipped |-> current[1].skipped,
               summary |-> current[1].summary])

GetDeploymentStatus ==
    /\ pc = "idle"
    /\ ret.op # "get_deployment_status"
    /\ ret' = [Returned("get_deployment_status") EXCEPT
                  !.status = get_deployment_status(current_deployment)]
    /\ calls' = <<>>
    /\ UNCHANGED <<envVars, budget, orchVars, collabVars, pc, run, caller>>

\* variant: the accessor hands out the orchestrator's own list
get_deployment_history_shared(history) ==
    [value |-> history, same_list |-> TRUE, same_items |-> TRUE]

\* get_deployment_history(): self.deployment_history.copy(), a new list of
\* the same result objects
get_deployment_history(history) ==
    [value |-> history, same_list |-> FALSE, same_items |-> TRUE]

GetDeploymentHistory ==
    /\ pc = "idle"
    /\ caller.holds = "nothing"
    /\ LET got == get_deployment_history(deployment_history) IN
          caller' = [caller EXCEPT !.holds = "history",
                                   !.value = got.value,
                                   !.same_list = got.same_list,
                                   !.same_items = got.same_items]
    /\ ret' = Returned("get_deployment_history")
    /\ calls' = <<>>
    /\ UNCHANGED <<envVars, budget, orchVars, collabVars, pc, run>>

\* the calling code removes the last entry of the list it was given
\* (list.pop()); the orchestrator's list follows when it is the same object
CallerPopsHistory ==
    /\ pc = "idle"
    /\ caller.holds = "history"
    /\ caller.value # <<>>
    /\ caller.edits < MaxEdits
    /\ caller' = [caller EXCEPT
                    !.value = SubSeq(@, 1, Len(@) - 1),
                    !.edits = @ + 1]
    /\ deployment_history' =
          IF caller.same_list
          THEN SubSeq(deployment_history, 1, Len(deployment_history) - 1)
          ELSE deployment_history
    /\ UNCHANGED <<envVars, budget, inventory, devices, current_deployment,
                   collabVars, pc, run, calls, ret>>

\* the call finds the template files as the previous call found them
SameFilesAsBefore ==
    /\ caller.last_validation # None
    /\ caller.last_validation[1].dir = templateDir

\* the variable maps a caller passes: any subset of two documented scalar
\* keys, two documented dictionary keys and a key of its own, a dictionary
\* with or without the sub-fields of its default, any value possibly null
VarKeys == {"hostname", "vlans", "stp", "site"}

VarValues(k) ==
    CASE k = "hostname" -> {Scalar("SW1"), Null}
      [] k = "vlans"    -> {Empty, [v10 |-> [name |-> Scalar("users")]]}
      [] k = "stp"      -> {[mode |-> Scalar("mstp")],
                            [mode |-> Scalar("mstp"),
                             priority |-> Scalar("4096")],
                            Null}
      [] OTHER          -> {Scalar("lab")}

VariableMaps ==
    UNION { { f \in [S -> UNION { VarValues(k) : k \in S }] :
                \A k \in S : f[k] \in VarValues(k) } : S \in SUBSET VarKeys }

\* the calling code builds a variable map
CallerBuildsVariables(variables) ==
    /\ pc = "idle"
    /\ caller.holds = "nothing"
    /\ caller' = [caller EXCEPT !.holds = "variables", !.value = variables]
    /\ UNCHANGED <<envVars, budget, orchVars, collabVars, pc, run, calls, ret>>

\* _prepare_variables called on the caller's map, as render_template does
PrepareVariables ==
    /\ pc = "idle"
    /\ caller.holds = "variables"
    /\ ret.op # "prepare_variables"
    /\ LET out == prepare_variables(caller.value) IN
          /\ ret' = [Returned("prepare_variables") EXCEPT
                        !.variables = Some(caller.value),
                        !.prepared = Some(out.prepared)]
          /\ caller' = [caller EXCEPT !.value = out.variables]
    /\ calls' = <<>>
    /\ UNCHANGED <<envVars, budget, orchVars, collabVars, pc, run>>

\* variant: a validation that remembers the templates it has seen in the
\* template cache and leaves them out the next time
ValidateAllTemplatesCaching ==
    /\ pc = "idle"
    /\ caller.validations < MaxValidations
    /\ LET results == [t \in DOMAIN templateDir \ template_cache |->
                         validate_template_syntax(templateDir, t)]
       IN /\ ret' = [Returned("validate_all_templates") EXCEPT
                        !.validation = Some(results)]
          /\ caller' = [caller EXCEPT
                          !.validations = @ + 1,
                          !.last_validation =
                              Some([dir |-> templateDir, results |-> results,
                                    repeated |-> SameFilesAsBefore])]
          /\ template_cache' = template_cache \cup DOMAIN results
    /\ calls' = <<>>
    /\ UNCHANGED <<envVars, budget, orchVars, connections, connection_status, pc,
                   run>>

\* TemplateEngine.validate_all_templates() called by the calling code
ValidateAllTemplates ==
    /\ pc = "idle"
    /\ caller.validations < MaxValidations
    /\ LET results == validate_all_templates(templateDir)
       IN /\ ret' = [Returned("validate_all_templates") EXCEPT
                        !.validation = Some(results)]
          /\ caller' = [caller EXCEPT
                          !.validations = @ + 1,
                          !.last_validation =
                              Some([dir |-> templateDir, results |-> results,
                                    repeated |-> SameFilesAsBefore])]
    /\ calls' = <<>>
    /\ UNCHANGED <<envVars, budget, orchVars, collabVars, pc, run>>

\* the template files are rewritten between two calls
WriteTemplates(dir) ==
    /\ pc = "idle"
    /\ dir # templateDir
    /\ templateDir' = dir
    /\ UNCHANGED <<disk, budget, orchVars, collabVars, pc, run, calls, ret,
                   caller>>

-----------------------------------------------------------------------------
(* Specifications *)

\* Spec: load_inventory calls, then the orchestrator's first
\* deploy_all_devices, over inventories of up to MaxDevices devices
Init ==
    /\ disk \in RunFiles
    /\ templateDir \in TemplateDirs
    /\ budget = [loads |-> MaxLoads, runs |-> 1, calls |-> 0]
    /\ InitOrchestrator

Next ==
    \/ \E path \in Paths : LoadInventory(path)
    \/ \E dry_run \in OptBool : StartRun(dry_run)
    \/ \E o \in RunOutcomes : StepRun(o)
    \/ FinishRun

Spec == Init /\ [][Next]_vars

\* SpecDevice: load_inventory calls, then deploy_device called directly on
\* the loaded devices and a run, over inventories of a single device of any
\* kind
InitDevice ==
    /\ disk \in DeviceFiles
    /\ templateDir \in TemplateDirs
    /\ budget = [loads |-> MaxLoads, runs |-> 1, calls |-> MaxCalls]
    /\ InitOrchestrator

NextDevice ==
    \/ \E path \in Paths : LoadInventory(path)
    \/ \E i \in 1..Len(devices), dry_run \in OptBool, o \in Outcomes :
          DeployDevice(i, dry_run, o)
    \/ \E dry_run \in OptBool : StartRun(dry_run)
    \/ \E o \in Outcomes : StepRun(o)
    \/ FinishRun

SpecDevice == InitDevice /\ [][NextDevice]_vars

\* SpecSort: the order of the loaded devices
InitSort ==
    /\ disk \in SortFiles
    /\ templateDir = [t \in TemplateFiles |-> "valid"]
    /\ budget = [loads |-> MaxLoads, runs |-> 0, calls |-> 0]
    /\ InitOrchestrator

NextSort ==
    \/ \E path \in Paths : LoadInventory(path)
    \/ GetDeploymentSequence

SpecSort == InitSort /\ [][NextSort]_vars

\* SpecHistory: up to MaxRuns runs with loads in between, the status and
\* history accessors and a caller that changes the list it was given, over
\* inventories of at most one device
HistoryFiles ==
    { Mapping(devs, None, None) :
        devs \in DeviceLists(Entries({Good, NoIp}, {None}), 1) }

HistoryDirs ==
    { dir \in TemplateDirs :
        DOMAIN dir = TemplateFiles /\ dir["access_switch.j2"] = "valid" }

InitHistory ==
    /\ disk \in HistoryFiles
    /\ templateDir \in HistoryDirs
    /\ budget = [loads |-> MaxLoads, runs |-> MaxRuns, calls |-> 0]
    /\ InitOrchestrator

NextHistory ==
    \/ \E path \in MorePaths : LoadInventory(path)
    \/ \E dry_run \in OptBool : StartRun(dry_run)
    \/ \E o \in RunOutcomes : StepRun(o)
    \/ FinishRun
    \/ GetDeploymentStatus
    \/ GetDeploymentHistory
    \/ CallerPopsHistory

SpecHistory == InitHistory /\ [][NextHistory]_vars

\* SpecCopy: a caller that keeps the list get_devices returned while the
\* orchestrator loads and deploys, and that changes the list and its items
CopyFiles ==
    { Mapping(devs, None, None) :
        devs \in DeviceLists(Entries({Good}, {None, Some(1)}), MaxDevices) }

\* the collaborators never fail here: only rendering may
CopyOutcomes == { o \in RunOutcomes : ~Raises(o) /\ o.connect = "true"
                                       /\ o.deploy = "true" }

InitCopy ==
    /\ disk \in CopyFiles
    /\ templateDir = [t \in TemplateFiles |-> "valid"]
    /\ budget = [loads |-> MaxLoads, runs |-> 0, calls |-> MaxCalls]
    /\ InitOrchestrator

NextCopy ==
    \/ \E path \in Paths : LoadInventory(path)
    \/ GetDevices
    \/ \E i \in 1..Len(caller.value) : CallerEditsDevice(i)
    \/ CallerPopsDevice
    \/ \E i \in 1..Len(devices), o \in CopyOutcomes :
          DeployDevice(i, Some(TRUE), o)
    \/ GetDeploymentSequence

SpecCopy == InitCopy /\ [][NextCopy]_vars

\* the scheduling of a run. deploy_all_devices is one synchronous call: once
\* it has started, the interpreter goes on with the next iteration of its
\* loop, and with the return after the last one, as long as every
\* collaborator call returns
Fairness ==
    /\ WF_vars(\E o \in RunOutcomes : StepRun(o))
    /\ WF_vars(FinishRun)

\* inventories of complete devices and devices without ip, under each
\* setting of the skip policy
LiveFiles ==
    { Mapping(devs, None, rb) :
        devs \in DeviceLists(Entries({Good, NoIp}, {None}), MaxDevices),
        rb \in OptBool }

InitLive ==
    /\ disk \in LiveFiles
    /\ templateDir \in HistoryDirs
    /\ budget = [loads |-> MaxLoads, runs |-> 1, calls |-> 0]
    /\ InitOrchestrator

\* SpecLoop: the actions of Spec over these inventories; SpecLive: the same
\* with the scheduling of a run
SpecLoop == InitLive /\ [][Next]_vars

SpecLive == SpecLoop /\ Fairness

\* SpecResults: runs over the same inventories in which a collaborator may
\* also raise an exception that carries no message
NextResults ==
    \/ \E path \in Paths : LoadInventory(path)
    \/ \E dry_run \in OptBool : StartRun(dry_run)
    \/ \E o \in Outcomes : StepRun(o)
    \/ FinishRun

SpecResults == InitLive /\ [][NextResults]_vars

\* SpecValidate: validate_all_templates called repeatedly, with dry-run
\* deployments that fill the template cache and rewritten template files in
\* between
ValidateFiles ==
    { Mapping(devs, None, None) : devs \in [1..1 -> Entries({Good}, {None})] }

InitValidate ==
    /\ disk \in ValidateFiles
    /\ templateDir \in TemplateDirs
    /\ budget = [loads |-> 1, runs |-> 0, calls |-> MaxCalls]
    /\ InitOrchestrator

NextValidate ==
    \/ \E path \in Paths : LoadInventory(path)
    \/ \E i \in 1..Len(devices), o \in CopyOutcomes :
          DeployDevice(i, Some(TRUE), o)
    \/ ValidateAllTemplates
    \/ \E dir \in TemplateDirs : WriteTemplates(dir)

SpecValidate == InitValidate /\ [][NextValidate]_vars

\* SpecPrepare: the effective variable set of every variable map
InitPrepare ==
    /\ disk = NoFile
    /\ templateDir = [t \in TemplateFiles |-> "valid"]
    /\ budget = [loads |-> 0, runs |-> 0, calls |-> 0]
    /\ InitOrchestrator

NextPrepare ==
    \/ \E variables \in VariableMaps : CallerBuildsVariables(variables)
    \/ PrepareVariables

SpecPrepare == InitPrepare /\ [][NextPrepare]_vars

\* SpecSummary: dry runs over inventories of up to MaxSummaryDevices devices,
\* complete or without ip, in which rendering may fail
SummaryFiles ==
    { Mapping(devs, None, rb) :
        devs \in DeviceLists(Entries({Good, NoIp}, {None}), MaxSummaryDevices),
        rb \in {None, Some(FALSE)} }

InitSummary ==
    /\ disk \in SummaryFiles
    /\ templateDir = [t \in TemplateFiles |-> "valid"]
    /\ budget = [loads |-> 1, runs |-> 1, calls |-> 0]
    /\ InitOrchestrator

NextSummary ==
    \/ \E path \in Paths : LoadInventory(path)
    \/ StartRun(Some(TRUE))
    \/ \E o \in CopyOutcomes : StepRun(o)
    \/ FinishRun

SpecSummary == InitSummary /\ [][NextSummary]_vars

-----------------------------------------------------------------------------
(* DeviceManager on its own: connect, disconnect, is_connected *)

ManagerDevices == {"d1", "d2"}

\* how a call to connect is equipped: with a key file that exists or a
\* password, with neither, or with ssh_key_file passed as None
Credentials == {"given", "none", "null_key"}

\* what one attempt of the retry loop meets: a session that answers
\* "display version" as a Huawei device does, a session that does not, a
\* NetmikoTimeoutException or another NetmikoBaseException (handled alike),
\* a NetmikoAuthenticationException, any other exception
AttemptOutcomes == {"verified", "unverified", "timeout", "auth", "other"}
LoopEnds == {"verified", "auth", "other"}

\* one plan per distinguishable course of the loop: an attempt that is not
\* reached is fixed to the first listed outcome
NoPlan == [i \in 1..max_retries |-> "verified"]
AttemptPlans ==
    { plan \in [1..max_retries -> AttemptOutcomes] :
        \A i \in 1..max_retries :
            (\E j \in 1..(i - 1) : plan[j] \in LoopEnds) =>
                plan[i] = "verified" }
PlansFor(cred) == IF cred = "given" THEN AttemptPlans ELSE {NoPlan}

Pop(dict, key) == [k \in DOMAIN dict \ {key} |-> dict[k]]
Put(dict, key, value) ==
    [k \in DOMAIN dict \cup {key} |-> IF k = key THEN value ELSE dict[k]]

Manager(conns, status) == [connections |-> conns, status |-> status]

\* variant: the session is dropped, its status entry stays
cleanup_connection_only(m, name) ==
    Manager(m.connections \ {name}, m.status)

\* _cleanup_connection: pop the device from both dictionaries
cleanup_connection(m, name) ==
    Manager(m.connections \ {name}, Pop(m.status, name))

\* is_connected: probe the stored session with "display clock"
is_connected(m, name, live) ==
    IF name \notin m.connections
    THEN [result |-> FALSE, manager |-> m]
    ELSE IF live
    THEN [result |-> TRUE,
          manager |-> Manager(m.connections, Put(m.status, name, TRUE))]
    ELSE [result |-> FALSE,
          manager |-> cleanup_connection(
                          Manager(m.connections, Put(m.status, name, FALSE)),
                          name)]

\* variant: a loop that goes on to the next attempt after any failure
RECURSIVE ConnectLoopPersistent(_, _)
ConnectLoopPersistent(plan, attempt) ==
    IF attempt > max_retries THEN <<>>
    ELSE IF plan[attempt] = "verified" THEN <<plan[attempt]>>
    ELSE <<plan[attempt]>> \o ConnectLoopPersistent(plan, attempt + 1)

\* for attempt in range(max_retries): the attempts made, in order; the loop
\* ends with the return on a verified session and with the break on an
\* authentication failure or an unexpected exception
RECURSIVE ConnectLoop(_, _)
ConnectLoop(plan, attempt) ==
    IF attempt > max_retries THEN <<>>
    ELSE IF plan[attempt] \in LoopEnds
    THEN <<plan[attempt]>>
    ELSE <<plan[attempt]>> \o ConnectLoop(plan, attempt + 1)

AttemptCalls(name, made) ==
    [i \in 1..Len(made) |-> Call("ConnectHandler", name, "", made[i])]

\* connect(device_name, device_ip, **kwargs)
connect_device(m, name, cred, live, plan) ==
    LET probe == is_connected(m, name, live)
        probed == IF name \in m.connections
                  THEN <<Call("is_connected", name, "",
                              IF probe.result THEN "true" ELSE "false")>>
                  ELSE <<>>
        m1 == IF name \in m.connections
              THEN cleanup_connection(probe.manager, name)
              ELSE m
        made == ConnectLoop(plan, 1)
    IN
    IF name \in m.connections /\ probe.result
    THEN [result |-> "true", manager |-> probe.manager, calls |-> probed]
    ELSE IF cred = "null_key"
    THEN [result |-> "raise", manager |-> m1, calls |-> probed]
    ELSE IF cred = "none"
    THEN [result |-> "false", manager |-> m1, calls |-> probed]
    ELSE IF made # <<>> /\ made[Len(made)] = "verified"
    THEN [result |-> "true",
          manager |-> Manager(m1.connections \cup {name},
                              Put(m1.status, name, TRUE)),
          calls |-> probed \o AttemptCalls(name, made)]
    ELSE [result |-> "false",
          manager |-> Manager(m1.connections, Put(m1.status, name, FALSE)),
          calls |-> probed \o AttemptCalls(name, made)]

\* disconnect(device_name): closing is what the session's own disconnect
\* does, "ok" or "raise"
disconnect_device(m, name, closing) ==
    IF name \notin m.connections
    THEN [result |-> "true", manager |-> m, calls |-> <<>>]
    ELSE [result |-> IF closing = "ok" THEN "true" ELSE "false",
          manager |-> cleanup_connection(m, name),
          calls |-> <<Call("session.disconnect", name, "", closing)>>]

ManagerNow == Manager(connections, connection_status)

ManagerStep(op, name, arg, out) ==
    /\ pc = "idle"
    /\ budget.calls > 0
    /\ budget' = [budget EXCEPT !.calls = @ - 1]
    /\ connections' = out.manager.connections
    /\ connection_status' = out.manager.status
    /\ calls' = <<Call(op, name, arg, out.result)>> \o out.calls
    /\ ret' = [Returned(op) EXCEPT !.raised = (out.result = "raise"),
                                   !.ok = (out.result = "true")]
    /\ UNCHANGED <<envVars, orchVars, template_cache, pc, run, caller>>

Connect(name, cred, live, plan) ==
    ManagerStep("connect", name, cred,
                connect_device(ManagerNow, name, cred, live, plan))

Disconnect(name, closing) ==
    ManagerStep("disconnect", name, "",
                disconnect_device(ManagerNow, name, closing))

IsConnected(name, live) ==
    LET out == is_connected(ManagerNow, name, live) IN
    ManagerStep("is_connected", name, "",
                [result |-> IF out.result THEN "true" ELSE "false",
                 manager |-> out.manager, calls |-> <<>>])

\* SpecManager: a DeviceManager called up to MaxManagerCalls times
InitManager ==
    /\ disk = NoFile
    /\ templateDir = [t \in TemplateFiles |-> "valid"]
    /\ budget = [loads |-> 0, runs |-> 0, calls |-> MaxManagerCalls]
    /\ InitOrchestrator

NextManager ==
    \/ \E name \in ManagerDevices, cred \in Credentials, live \in BOOLEAN :
          \E plan \in PlansFor(cred) : Connect(name, cred, live, plan)
    \/ \E name \in ManagerDevices, closing \in {"ok", "raise"} :
          Disconnect(name, closing)
    \/ \E name \in ManagerDevices, live \in BOOLEAN : IsConnected(name, live)

SpecManager == InitManager /\ [][NextManager]_vars

-----------------------------------------------------------------------------
(* Properties *)

TransportOps == {"connect", "deploy_config", "disconnect"}
DeviceOps == TransportOps \cup {"deploy_device", "generate_config"}

NoCalls(ops) == \A i \in 1..Len(calls) : calls[i].op \notin ops
NoCallsFor(name) == \A i \in 1..Len(calls) : calls[i].dev # name

\* deploy_all_devices has returned a result / has run the loop to its end
RunReturned ==
    pc = "idle" /\ ret.op = "deploy_all_devices" /\ ~ret.raised
RunCompleted == RunReturned /\ ret.exit = "end"

NameSeq(seq) == [i \in 1..Len(seq) |-> seq[i].name]
Positions(results, names, status) ==
    { i \in 1..Len(names) :
        names[i] \in DOMAIN results /\ results[names[i]].status = status }

Min(S) == CHOOSE x \in S : \A y \in S : x <= y

\* C1: when the validation gate fails on a non-empty inventory, the result
\* returned has successful = 0, failed = total_devices = number of loaded
\* devices, skipped = 0, no per-device entry and the aborted summary, and the
\* invocation has called neither deploy_device nor connect, deploy_config,
\* disconnect or generate_config.
C1_GateAbort ==
    (RunReturned /\ devices # <<>>
        /\ ~validate_templates(devices, templateDir))
    => /\ ret.exit = "gate"
       /\ ret.result # None
       /\ LET r == ret.result[1] IN
            /\ r.successful = 0
            /\ r.failed = Len(devices)
            /\ r.total_devices = Len(devices)
            /\ r.skipped = 0
            /\ DOMAIN r.results = {}
            /\ r.summary = "Template validation failed - deployment aborted"
       /\ NoCalls(DeviceOps)
       /\ connections = {}

C1_Witness ==
    /\ RunReturned /\ ret.exit = "gate"
    /\ Len(devices) = MaxDevices
    /\ ret.result[1].failed = MaxDevices

\* C2: if a template referenced by a device (template field plus ".j2") is
\* not valid, a missing file included, deploy_all_devices returns
\* successful = 0, failed = total_devices, no per-device entry, and no
\* transport call is made.
C2_ReferencedTemplateGate ==
    (RunReturned
        /\ \E i \in 1..Len(devices) :
              /\ devices[i].template # ""
              /\ ~validate_template_syntax(
                      templateDir, devices[i].template \o ".j2").valid)
    => /\ ret.result[1].successful = 0
       /\ ret.result[1].failed = ret.result[1].total_devices
       /\ DOMAIN ret.result[1].results = {}
       /\ NoCalls(TransportOps)

\* the shape the skip-gate gives to the first `done` devices of a sequence
SkipGateShape(results, names, done, successful, failed, skipped) ==
    LET bad == { i \in Positions(results, names, "failed") : i <= done } IN
    bad # {} =>
        LET k == Min(bad) IN
        /\ \A j \in 1..done :
              /\ j < k => results[names[j]].status = "success"
              /\ j > k =>
                    /\ results[names[j]] =
                          [device_name |-> names[j], status |-> "skipped",
                           message |->
                               "Skipped due to previous deployment failures",
                           config_lines |-> 0, error |-> None]
                    /\ NoCallsFor(names[j])
        /\ failed = 1
        /\ skipped = done - k
        /\ successful = k - 1

\* C3: with rollback_on_failure enabled or absent, once a device has been
\* recorded Failed every later device of the sequence is recorded Skipped
\* with the fixed message and deploy_device is never invoked for it; the
\* counts are failed = 1, skipped = the devices after the failed one,
\* successful = the devices before it.
C3_SkipAfterFailure ==
    inventory.rollback_on_failure # Some(FALSE) =>
        /\ pc = "running" =>
              SkipGateShape(run.results, NameSeq(run.seq), run.idx - 1,
                            run.successful, run.failed, run.skipped)
        /\ RunCompleted =>
              LET r == ret.result[1] IN
              SkipGateShape(r.results, NameSeq(run.seq), Len(run.seq),
                            r.successful, r.failed, r.skipped)

C3_Witness ==
    /\ RunCompleted
    /\ inventory.rollback_on_failure # Some(FALSE)
    /\ ret.dry_run = Some(FALSE)
    /\ Len(run.seq) = MaxDevices
    /\ ret.result[1].failed = 1
    /\ ret.result[1].skipped = MaxDevices - 1
    /\ \E i \in 1..Len(calls) : calls[i].op = "connect"

\* an invocation in dry-run mode, under way or returned
InDryRun ==
    \/ pc = "running" /\ run.dry_run
    \/ /\ pc = "idle"
       /\ ret.op \in {"deploy_all_devices", "deploy_device"}
       /\ ret.dry_run = Some(TRUE)

\* C4: in dry-run mode neither deploy_all_devices nor deploy_device invokes
\* the transport collaborator's connect, deploy_config or disconnect.
C4_DryRunNoTransport == InDryRun => NoCalls(TransportOps)

C4_Witness ==
    /\ pc = "idle" /\ ret.op = "deploy_device"
    /\ ret.arg = None /\ ret.dry_run = Some(TRUE)
    /\ ret.device_result # None
    /\ ret.device_result[1].status = "success"
    /\ \E i \in 1..Len(calls) :
          calls[i].op = "generate_config" /\ calls[i].res = "text"

HasIpAndTemplate(d) == d.ip # "" /\ d.template # ""

\* generate_config was called for the device and returned a configuration
Rendered(name) ==
    \E i \in 1..Len(calls) :
        /\ calls[i].op = "generate_config"
        /\ calls[i].dev = name
        /\ calls[i].res = "text"

\* C5 as stated: in a dry-run invocation of deploy_all_devices that passes
\* the gate, every device with a non-empty ip and a non-empty template field
\* is recorded with status Success.
C5_DryRunAllSuccess ==
    (RunCompleted /\ ret.dry_run = Some(TRUE)) =>
        \A i \in 1..Len(run.seq) :
            HasIpAndTemplate(run.seq[i]) =>
                ret.result[1].results[run.seq[i].name].status = "success"

\* C5 amended: in a dry-run invocation of deploy_all_devices that passes the
\* gate, every device with a non-empty ip and a non-empty template field
\* that is attempted (not skipped after an earlier failure) and for which
\* generate_config returns a configuration is recorded with status Success
\* and the count of its non-blank configuration lines; a device for which
\* generate_config returns nothing is recorded Failed.
C5_DryRunRenderedSuccess ==
    (RunCompleted /\ ret.dry_run = Some(TRUE)) =>
        \A i \in 1..Len(run.seq) :
            LET d == run.seq[i]
                r == ret.result[1].results[d.name]
            IN
            /\ (HasIpAndTemplate(d) /\ Rendered(d.name)) =>
                  /\ r.status = "success"
                  /\ r.config_lines = 2
                  /\ r.error = None
            /\ (HasIpAndTemplate(d) /\ ~Rendered(d.name)) =>
                  r.status \in {"failed", "skipped"}

C5_Witness ==
    /\ RunCompleted /\ ret.dry_run = Some(TRUE)
    /\ Len(run.seq) = MaxDevices
    /\ \A i \in 1..Len(run.seq) :
          /\ HasIpAndTemplate(run.seq[i])
          /\ Rendered(run.seq[i].name)
          /\ ret.result[1].results[run.seq[i].name].status = "success"

\* C6: deploy_device never raises: for every device record, either dry-run
\* mode and every behaviour of the collaborators it returns a DeviceResult
\* whose status is Success or Failed, and every Failed result carries an
\* error: a fixed text, or the message of the exception caught.
C6_DeployDeviceNeverRaises ==
    /\ (pc = "idle" /\ ret.op = "deploy_device") =>
          /\ ~ret.raised
          /\ ret.device_result # None
          /\ LET r == ret.device_result[1] IN
                /\ r.status \in {"success", "failed"}
                /\ r.status = "success" => r.error = None
                /\ r.status = "failed" =>
                      /\ r.error # None
                      /\ r.error[1] = "" =>
                            r.message = "Deployment failed with exception"
    /\ (pc = "idle" /\ ret.op = "deploy_all_devices" /\ ret.raised) =>
          inventory.kind = "none"

C6_Witness ==
    /\ pc = "idle" /\ ret.op = "deploy_device"
    /\ ret.dry_run = Some(FALSE)
    /\ ret.device_result # None
    /\ ret.device_result[1].message = "Deployment failed with exception"
    /\ \E i \in 1..Len(calls) :
          calls[i].op = "deploy_config" /\ calls[i].res = "raise"

\* C7: deploy_all_devices always returns a DeploymentResult and no exception
\* escapes it, in every orchestrator state reachable by load_inventory calls,
\* successful or failed, and for every collaborator behaviour.
C7_RunAlwaysReturns ==
    (pc = "idle" /\ ret.op = "deploy_all_devices") =>
        ~ret.raised /\ ret.result # None

\* C8: in production mode every call deploy_device makes to deploy_config is
\* followed by a call to disconnect for the same device before deploy_device
\* returns, whether deploy_config returned true, returned false or raised.
C8_DisconnectAfterDeploy ==
    (pc = "idle" /\ ret.op = "deploy_device" /\ ret.dry_run = Some(FALSE)) =>
        \A i \in 1..Len(calls) :
            calls[i].op = "deploy_config" =>
                \E j \in (i + 1)..Len(calls) :
                    calls[j].op = "disconnect" /\ calls[j].dev = calls[i].dev

\* position of a device in the devices mapping of the inventory source
Declared(name) ==
    CHOOSE i \in 1..Len(inventory.devnames) : inventory.devnames[i] = name

Key(d) == IF d.deployment_order = <<>> THEN 999 ELSE d.deployment_order[1]

StablySorted(seq) ==
    \A i, j \in 1..Len(seq) :
        i < j =>
            \/ Key(seq[i]) < Key(seq[j])
            \/ /\ Key(seq[i]) = Key(seq[j])
               /\ Declared(seq[i].name) < Declared(seq[j].name)

\* C9: after a successful load_inventory the device list held by the
\* orchestrator is the declared devices sorted ascending by deployment_order
\* (999 when missing), devices with equal order in declaration order, and
\* get_deployment_sequence returns the same ordering.
C9_StableOrder ==
    (inventory.kind = "dict" /\ inventory.has_devices) =>
        /\ Len(devices) = Len(inventory.devnames)
        /\ { devices[i].name : i \in 1..Len(devices) } =
              { inventory.devnames[i] : i \in 1..Len(inventory.devnames) }
        /\ StablySorted(devices)
        /\ ret.op = "get_deployment_sequence" =>
              /\ ret.sequence = devices
              /\ StablySorted(ret.sequence)

C9_Witness ==
    /\ ret.op = "get_deployment_sequence"
    /\ inventory.kind = "dict" /\ inventory.has_devices
    /\ Len(ret.sequence) > 2
    /\ \E i, j \in 1..Len(ret.sequence) :
          /\ i < j
          /\ Declared(ret.sequence[i].name) > Declared(ret.sequence[j].name)
    /\ \E i, j \in 1..Len(ret.sequence) :
          i < j /\ Key(ret.sequence[i]) = Key(ret.sequence[j])

Count(results, names, status) ==
    Cardinality(Positions(results, names, status))

\* C10 as stated: in a run that passes the gate a device whose ip is missing
\* or empty always ends Failed with message "No IP address specified" and is
\* counted in failed, never in skipped.
C10_NoIpAlwaysFailed ==
    RunCompleted =>
        \A i \in 1..Len(run.seq) :
            run.seq[i].ip = "" =>
                LET r == ret.result[1].results[run.seq[i].name] IN
                /\ r.status = "failed"
                /\ r.message = "No IP address specified"

\* C10 amended: in a run that passes the gate, in dry-run and in production
\* mode alike, a device whose ip is missing or empty ends Failed with message
\* "No IP address specified" and is counted in failed, unless
\* rollback_on_failure is enabled and an earlier device of the sequence
\* failed: then it is Skipped and counted in skipped. No transport call is
\* made for it either way.
C10_NoIpFailedOrSkipped ==
    RunCompleted =>
        LET r == ret.result[1]
            names == NameSeq(run.seq)
        IN
        /\ r.failed = Count(r.results, names, "failed")
        /\ r.skipped = Count(r.results, names, "skipped")
        /\ \A i \in 1..Len(run.seq) :
              run.seq[i].ip = "" =>
                  LET gated ==
                        /\ inventory.rollback_on_failure # Some(FALSE)
                        /\ \E j \in 1..(i - 1) :
                              r.results[names[j]].status = "failed"
                  IN
                  /\ NoCallsFor(names[i]) \/
                        \A c \in 1..Len(calls) :
                            calls[c].dev = names[i] =>
                                calls[c].op = "deploy_device"
                  /\ IF gated
                     THEN r.results[names[i]].status = "skipped"
                     ELSE r.results[names[i]] =
                            [device_name |-> names[i], status |-> "failed",
                             message |-> "No IP address specified",
                             config_lines |-> 0,
                             error |-> Some("Missing device IP address")]

C10_Witness ==
    /\ RunCompleted /\ ret.dry_run = Some(FALSE)
    /\ Len(run.seq) = MaxDevices
    /\ run.seq[MaxDevices].ip = ""
    /\ ret.result[1].results[run.seq[MaxDevices].name].status = "failed"
    /\ ret.result[1].successful = MaxDevices - 1

\* a step that is a load_inventory call
LoadStep ==
    /\ budget'.loads = budget.loads - 1
    /\ ret'.op = "load_inventory"

\* C11: when load_inventory returns False (file absent, unparsable, empty or
\* without a devices section) the orchestrator's inventory settings and its
\* device list are exactly what they were before the call.
C11_FailedLoadKeepsState ==
    [][(LoadStep /\ ~ret'.ok) =>
          (inventory' = inventory /\ devices' = devices)]_vars

\* the mode the resolution rule gives: the explicit argument, else the
\* inventory's dry_run_default when it says true or false, else true
ResolvedDryRun(arg, inv) ==
    IF arg # None THEN arg[1]
    ELSE IF inv.dry_run_default = Some("false") THEN FALSE
    ELSE TRUE

\* C12: the effective dry-run mode of deploy_all_devices and of deploy_device
\* is the explicit argument when one is given, otherwise the inventory's
\* dry_run_default, otherwise true; the transport collaborator is contacted
\* only when the argument is false, or absent with an inventory default of
\* false.
C12_EffectiveDryRun ==
    /\ pc = "running" => run.dry_run = ResolvedDryRun(ret.arg, inventory)
    /\ (pc = "idle" /\ ret.op \in {"deploy_all_devices", "deploy_device"}
            /\ ret.dry_run # None) =>
          ret.dry_run[1] = ResolvedDryRun(ret.arg, inventory)
    /\ ~NoCalls(TransportOps) =>
          \/ ret.arg = Some(FALSE)
          \/ ret.arg = None /\ inventory.dry_run_default = Some("false")

CountCalls(op, name) ==
    Cardinality({ i \in 1..Len(calls) :
                    calls[i].op = op /\ calls[i].dev = name })

\* C13: within one run of deploy_all_devices deploy_device, connect,
\* generate_config and deploy_config are each invoked at most once per
\* device, every device visited has exactly one DeviceResult, a device not
\* yet visited has none, and no call was made for a device recorded Skipped.
C13_VisitedOnce ==
    (pc = "running" \/ RunCompleted) =>
        LET names == NameSeq(run.seq)
            done == run.idx - 1
        IN
        /\ DOMAIN run.results = { names[i] : i \in 1..done }
        /\ RunCompleted =>
              done = Len(names) /\ ret.result[1].results = run.results
        /\ \A i \in 1..Len(names) :
              /\ \A op \in DeviceOps : CountCalls(op, names[i]) <= 1
              /\ i > done => NoCallsFor(names[i])
              /\ i <= done =>
                    IF run.results[names[i]].status = "skipped"
                    THEN NoCallsFor(names[i])
                    ELSE CountCalls("deploy_device", names[i]) = 1

C13_Witness ==
    /\ RunCompleted /\ ret.dry_run = Some(FALSE)
    /\ Len(run.seq) = MaxDevices
    /\ \E i \in 1..Len(calls) :
          /\ calls[i].op = "connect" /\ calls[i].res = "false"
          /\ calls[i].dev = run.seq[1].name
    /\ \A i \in 1..Len(run.seq) :
          CountCalls("deploy_device", run.seq[i].name) = 1

\* C14: with rollback_on_failure false a failure never ends the sequence:
\* every device is attempted with deploy_device whatever happened to the
\* devices before it, skipped = 0 and successful + failed = total_devices.
C14_NoRollbackAttemptsAll ==
    inventory.rollback_on_failure = Some(FALSE) =>
        /\ pc = "running" =>
              /\ run.skipped = 0
              /\ run.successful + run.failed = run.idx - 1
              /\ \A i \in 1..(run.idx - 1) :
                    /\ CountCalls("deploy_device", run.seq[i].name) = 1
                    /\ run.results[run.seq[i].name].status
                          \in {"success", "failed"}
        /\ RunCompleted =>
              LET r == ret.result[1] IN
              /\ r.skipped = 0
              /\ r.successful + r.failed = r.total_devices
              /\ r.total_devices = Len(devices)
              /\ \A i \in 1..Len(devices) :
                    /\ CountCalls("deploy_device", devices[i].name) = 1
                    /\ r.results[devices[i].name].status
                          \in {"success", "failed"}

C14_Witness ==
    /\ RunCompleted
    /\ inventory.rollback_on_failure = Some(FALSE)
    /\ Len(devices) = MaxDevices
    /\ ret.result[1].failed = MaxDevices
    /\ CountCalls("deploy_device", devices[MaxDevices].name) = 1

\* the template files the devices refer to: template field plus ".j2"
Referenced ==
    { devices[i].template \o ".j2" :
        i \in { j \in 1..Len(devices) : devices[j].template # "" } }

\* C15: the gate requires valid = true only for the templates some device
\* refers to: when every referenced template is valid, an invalid template
\* file that no device refers to does not make validate_templates return
\* false and does not abort deploy_all_devices.
C15_UnreferencedTemplateIgnored ==
    (RunReturned /\ devices # <<>>
        /\ \A t \in Referenced :
              t \in DOMAIN templateDir /\ templateDir[t] = "valid")
    => /\ ret.exit # "gate"
       /\ \A i \in 1..Len(calls) :
             calls[i].op = "validate_templates" => calls[i].res = "true"

\* a step in which deploy_all_devices returns after the last device
RunEndStep == pc = "running" /\ pc' = "idle" /\ ret'.exit = "end"

\* C16: every deploy_all_devices that iterates the sequence to the end
\* appends exactly one DeploymentResult to the history, sets
\* current_deployment to that result and returns it, so that
\* current_deployment is the last element of the history afterwards.
C16_CompletedRunRecorded ==
    [][RunEndStep =>
          /\ ret'.result # None
          /\ deployment_history' =
                Append(deployment_history, ret'.result[1])
          /\ current_deployment' = ret'.result
          /\ current_deployment' =
                Some(deployment_history'[Len(deployment_history')])]_vars

C16_Witness ==
    /\ RunCompleted
    /\ Len(deployment_history) = MaxRuns
    /\ deployment_history[1] # deployment_history[MaxRuns]
    /\ current_deployment = Some(deployment_history[MaxRuns])

\* the counts and summary of a result
Snapshot(r) ==
    [total_devices |-> r.total_devices, successful |-> r.successful,
     failed |-> r.failed, skipped |-> r.skipped, summary |-> r.summary]

\* C17 as stated: get_deployment_status returns None exactly when
\* deploy_all_devices has never returned a result on this orchestrator;
\* otherwise its counts and summary are those of the result
\* deploy_all_devices returned last, a validation-aborted or zero-device
\* result included.
C17_StatusFollowsLastResult ==
    (pc = "idle" /\ ret.op = "get_deployment_status") =>
        IF caller.last_result = None
        THEN ret.status = None
        ELSE ret.status = Some(Snapshot(caller.last_result[1]))

\* C17 amended: get_deployment_status returns None exactly when no
\* deploy_all_devices has gone through its device sequence to the end on this
\* orchestrator; otherwise its counts and summary are those of the last run
\* that did. A validation-aborted or zero-device result is returned to the
\* caller only and leaves the status as it was.
C17_StatusFollowsLastFullRun ==
    (pc = "idle" /\ ret.op = "get_deployment_status") =>
        IF caller.last_full = None
        THEN ret.status = None
        ELSE ret.status = Some(Snapshot(caller.last_full[1]))

C17_Witness ==
    /\ pc = "idle" /\ ret.op = "get_deployment_status"
    /\ ret.status # None
    /\ caller.last_result = Some(NoDevicesResult)
    /\ caller.last_full # caller.last_result

\* C18: the deployment history is append-only: no step removes, replaces or
\* reorders an entry, and a caller changing the list get_deployment_history
\* gave it leaves the orchestrator's history as it is.
C18_HistoryAppendOnly ==
    [][/\ Len(deployment_history') >= Len(deployment_history)
       /\ SubSeq(deployment_history', 1, Len(deployment_history)) =
             deployment_history
       /\ caller'.edits # caller.edits =>
             deployment_history' = deployment_history]_vars

C18_Witness ==
    /\ caller.holds = "history"
    /\ caller.edits > 0
    /\ caller.value = <<>>
    /\ Len(deployment_history) = MaxRuns

\* C19: device records are immutable after load and read-only during a run:
\* every field of every device has the same value after deploy_all_devices
\* or deploy_device returns as before the call (only load_inventory may give
\* the orchestrator other device records).
C19_DevicesImmutable ==
    [][(~LoadStep /\ caller'.edits = caller.edits) =>
          devices' = devices]_vars

\* C20: get_devices returns a defensive copy: no later load_inventory,
\* deploy_device or deploy_all_devices changes what the caller sees in the
\* list it was given, and a change the caller makes to it leaves the
\* orchestrator's device list and deployment order as they were.
C20_DefensiveCopy ==
    [][/\ (caller.holds = "devices" /\ caller'.edits = caller.edits) =>
             Seen' = Seen
       /\ caller'.edits # caller.edits =>
             /\ devices' = devices
             /\ get_deployment_sequence(devices') =
                   get_deployment_sequence(devices)]_vars

CollaboratorOps == {"connect", "generate_config", "deploy_config",
                    "disconnect"}

\* position of a device in the deployment sequence of the run
PositionOf(name) ==
    CHOOSE i \in 1..Len(run.seq) : run.seq[i].name = name

\* C22: devices are processed one at a time in deployment order: when a
\* collaborator call is made for the device at a position of the sequence,
\* the DeviceResult of every device at an earlier position is already in the
\* results map, and the calls of a run are in the order of the sequence.
C22_OneAtATime ==
    [][pc = "running" =>
          /\ \A c \in (Len(calls) + 1)..Len(calls') :
                calls'[c].op \in CollaboratorOps =>
                    \A j \in 1..(PositionOf(calls'[c].dev) - 1) :
                        run.seq[j].name \in DOMAIN run.results
          /\ \A a, b \in 1..Len(calls') :
                (a < b /\ calls'[a].op \in CollaboratorOps
                       /\ calls'[b].op \in CollaboratorOps) =>
                    PositionOf(calls'[a].dev) <= PositionOf(calls'[b].dev)]_vars

C22_Witness ==
    /\ RunCompleted /\ ret.dry_run = Some(FALSE)
    /\ Len(run.seq) = MaxDevices
    /\ \E a, b \in 1..Len(calls) :
          /\ a < b
          /\ calls[a].op = "disconnect" /\ calls[a].dev = run.seq[1].name
          /\ calls[b].op = "connect"
          /\ calls[b].dev = run.seq[MaxDevices].name
    /\ ret.result[1].results[run.seq[1].name].status = "failed"

\* every device of the sequence has a terminal status in the returned result
AllTerminal ==
    \A i \in 1..Len(run.seq) :
        /\ run.seq[i].name \in DOMAIN ret.result[1].results
        /\ ret.result[1].results[run.seq[i].name].status
              \in {"success", "failed", "skipped"}

\* C23: every run of deploy_all_devices that has started its loop eventually
\* finishes, given that every collaborator call returns: it returns a result
\* in which every device of the sequence has a terminal status (Success,
\* Failed or Skipped).
C23_RunFinishes ==
    (pc = "running") ~> (RunCompleted /\ AllTerminal)

\* C24: with no device loaded deploy_all_devices returns the zero-valued
\* result (total_devices = successful = failed = skipped = 0, no per-device
\* entry, summary "No devices to deploy") without raising, without validating
\* the templates and without any collaborator call, whatever the inventory
\* settings, the templates and the dry_run argument are.
C24_NoDevicesZeroResult ==
    (pc = "idle" /\ ret.op = "deploy_all_devices" /\ devices = <<>>) =>
        /\ ~ret.raised
        /\ ret.exit = "empty"
        /\ ret.result =
              Some([total_devices |-> 0, successful |-> 0, failed |-> 0,
                    skipped |-> 0, results |-> <<>>,
                    summary |-> "No devices to deploy"])
        /\ calls = <<>>
        /\ connections = {} /\ template_cache = {}
        /\ deployment_history = <<>> /\ current_deployment = None

C24_Witness ==
    /\ pc = "idle" /\ ret.op = "deploy_all_devices" /\ devices = <<>>
    /\ ret.exit = "empty"
    /\ ret.arg = None
    /\ inventory.kind = "none"
    /\ \E t \in DOMAIN templateDir : templateDir[t] = "syntax_error"

\* a step that is a call of validate_all_templates
ValidateStep == caller'.validations = caller.validations + 1

C26_TopLevelDefaults ==
    ret.op = "prepare_variables" =>
        LET v == ret.variables[1]
            p == ret.prepared[1]
        IN
        /\ DOMAIN p = DOMAIN v \cup DOMAIN defaults
        /\ \A k \in DOMAIN v : p[k] = v[k]
        /\ \A k \in DOMAIN defaults \ DOMAIN v : p[k] = defaults[k]
        /\ caller.value = v

C26_Witness ==
    /\ ret.op = "prepare_variables"
    /\ DOMAIN ret.variables[1] = {"stp", "site"}
    /\ ret.variables[1]["stp"] = [mode |-> Scalar("mstp")]
    /\ ret.prepared[1]["stp"] = [mode |-> Scalar("mstp")]
    /\ ret.prepared[1]["hostname"] = Scalar("DEVICE")
    /\ ret.prepared[1]["site"] = Scalar("lab")

\* the roles generate_config has a template for
MappedRoles == {"management", "core", "access", "edge", "router"}

\* C27: rendering failures are values and never propagate: no call of
\* generate_config ends in an exception; it returns a configuration only
\* when the template was found; and for a role that is not one of
\* management, core, access, edge, router it returns None without choosing
\* or rendering a template.
C27_RenderFailuresAreValues ==
    \A i \in 1..Len(calls) :
        calls[i].op = "generate_config" =>
            /\ calls[i].res \in {"none", "text"}
            /\ calls[i].res = "text" => calls[i].arg \in template_cache
            /\ DeviceNamed(devices, calls[i].dev).role \notin MappedRoles =>
                  calls[i].res = "none" /\ calls[i].arg = ""

\* the DeviceResult recorded for a device by the invocation in `calls`
ResultFor(name) ==
    IF ret.op = "deploy_device" THEN ret.device_result
    ELSE IF name \in DOMAIN run.results THEN Some(run.results[name])
    ELSE None

\* C28: in production mode, when connect returns false for a device,
\* deploy_device returns Failed with message "Failed to connect to device"
\* and error "SSH connection failed", and calls neither generate_config nor
\* deploy_config nor disconnect for that device.
C28_ConnectFailed ==
    \A i \in 1..Len(calls) :
        (calls[i].op = "connect" /\ calls[i].res = "false") =>
            LET name == calls[i].dev IN
            /\ \A op \in {"generate_config", "deploy_config", "disconnect"} :
                  CountCalls(op, name) = 0
            /\ CountCalls("connect", name) = 1
            /\ (pc = "idle" /\ ret.op = "deploy_device") =>
                  /\ ~ret.raised
                  /\ ret.dry_run = Some(FALSE)
            /\ ResultFor(name) # None =>
                  ResultFor(name)[1] =
                      [device_name |-> name, status |-> "failed",
                       message |-> "Failed to connect to device",
                       config_lines |-> 0,
                       error |-> Some("SSH connection failed")]

C28_Witness ==
    /\ pc = "idle" /\ ret.op = "deploy_device"
    /\ ret.arg = None /\ ret.dry_run = Some(FALSE)
    /\ Len(calls) = 2
    /\ calls[2].op = "connect" /\ calls[2].res = "false"
    /\ ret.device_result # None
    /\ ret.device_result[1].error = Some("SSH connection failed")

\* successful * 100 / total in tenths, rounded to the nearest tenth
NearestTenth(successful, total) ==
    (2000 * successful + total) \div (2 * total)

\* C29: the summary of a completed run is
\* "{successful}/{total} devices deployed successfully ({rate}%)", where
\* successful is the number of devices recorded Success, total the number of
\* loaded devices (failed and skipped ones included) and rate is
\* successful * 100 / total to one decimal; 3 successful of 4 gives 75.0%.
C29_Summary ==
    RunCompleted =>
        LET r == ret.result[1]
            total == Len(devices)
            successful == Count(r.results, NameSeq(run.seq), "success")
            tenths == NearestTenth(successful, total)
        IN
        /\ r.total_devices = total
        /\ r.successful = successful
        /\ r.successful + r.failed + r.skipped = total
        /\ r.summary =
              ToString(successful) \o "/" \o ToString(total)
                  \o " devices deployed successfully ("
                  \o ToString(tenths \div 10) \o "." \o ToString(tenths % 10)
                  \o "%)"
        /\ (successful = 3 /\ total = 4) =>
              r.summary = "3/4 devices deployed successfully (75.0%)"
        /\ (successful = 2 /\ total = 3) =>
              r.summary = "2/3 devices deployed successfully (66.7%)"
        /\ (successful = 0) =>
              r.summary = "0/" \o ToString(total)
                              \o " devices deployed successfully (0.0%)"

C29_Witness ==
    /\ RunCompleted
    /\ Len(devices) = 4
    /\ ret.result[1].successful = 3
    /\ ret.result[1].failed = 1
    /\ ret.result[1].summary = "3/4 devices deployed successfully (75.0%)"

\* C30: deploy_device checks ip, then template, before anything else: for a
\* device whose ip is missing or empty it returns Failed with error "Missing
\* device IP address", for one with an ip whose template is missing or empty
\* Failed with error "Missing template name", in production mode as in
\* dry-run, and it invokes neither connect nor generate_config nor
\* deploy_config.
C30_FieldChecksFirst ==
    (pc = "idle" /\ ret.op = "deploy_device") =>
        LET d == DeviceNamed(devices, calls[1].dev) IN
        /\ d.ip = "" =>
              /\ NoCalls(CollaboratorOps)
              /\ ret.device_result =
                    Some([device_name |-> d.name, status |-> "failed",
                          message |-> "No IP address specified",
                          config_lines |-> 0,
                          error |-> Some("Missing device IP address")])
        /\ (d.ip # "" /\ d.template = "") =>
              /\ NoCalls(CollaboratorOps)
              /\ ret.device_result =
                    Some([device_name |-> d.name, status |-> "failed",
                          message |-> "No template specified",
                          config_lines |-> 0,
                          error |-> Some("Missing template name")])

\* number of entries of a results map with the given status
EntriesWith(results, status) ==
    Cardinality({ n \in DOMAIN results : results[n].status = status })

\* C31: in every DeploymentResult returned by a run that passed the gate,
\* successful + failed + skipped = total_devices = the number of entries of
\* the results map, the keys of the results map are exactly the names of the
\* loaded devices, and successful, failed and skipped are the numbers of
\* entries with status Success, Failed and Skipped.
C31_CountsMatchResults ==
    RunCompleted =>
        LET r == ret.result[1] IN
        /\ r.successful + r.failed + r.skipped = r.total_devices
        /\ r.total_devices = Cardinality(DOMAIN r.results)
        /\ DOMAIN r.results = { devices[i].name : i \in 1..Len(devices) }
        /\ r.successful = EntriesWith(r.results, "success")
        /\ r.failed = EntriesWith(r.results, "failed")
        /\ r.skipped = EntriesWith(r.results, "skipped")

C31_Witness ==
    /\ RunCompleted
    /\ Len(devices) = MaxDevices
    /\ ret.result[1].results[run.seq[1].name].status = "failed"
    /\ ret.result[1].results[run.seq[MaxDevices].name].status = "success"
    /\ ret.result[1].successful = MaxDevices - 1
    /\ ret.result[1].skipped = 0

\* C32: with rollback_on_failure enabled (true or absent), in every state of
\* a run the failed counter is at most 1, no device recorded Success comes
\* after a device recorded Failed in the order of the sequence, and every
\* device recorded Skipped comes after the one Failed device.
C32_AtMostOneFailure ==
    ((pc = "running" \/ RunCompleted)
        /\ inventory.rollback_on_failure # Some(FALSE)) =>
        LET names == NameSeq(run.seq)
            bad == Positions(run.results, names, "failed")
            good == Positions(run.results, names, "success")
            passed == Positions(run.results, names, "skipped")
        IN
        /\ run.failed <= 1
        /\ Cardinality(bad) = run.failed
        /\ \A i \in bad, j \in good : j < i
        /\ \A j \in passed : \E i \in bad : i < j
        /\ RunCompleted => ret.result[1].failed = run.failed

C32_Witness ==
    /\ RunCompleted
    /\ inventory.rollback_on_failure = Some(TRUE)
    /\ Len(run.seq) = MaxDevices
    /\ run.failed = 1
    /\ run.successful = MaxDevices - 1
    /\ run.results[run.seq[MaxDevices].name].status = "failed"

\* C33: no connection is left open by a deployment: when deploy_device or
\* deploy_all_devices has returned, every connect that succeeded is followed
\* by a call to disconnect for the same device, and, where no disconnect
\* raised, the transport manager holds no connection to a device of the
\* inventory after deploy_all_devices has returned.
C33_NoConnectionLeftOpen ==
    (pc = "idle" /\ ret.op \in {"deploy_device", "deploy_all_devices"}) =>
        /\ \A i \in 1..Len(calls) :
               (calls[i].op = "connect" /\ calls[i].res = "true") =>
                   \E j \in (i + 1)..Len(calls) :
                       /\ calls[j].op = "disconnect"
                       /\ calls[j].dev = calls[i].dev
        /\ (/\ ret.op = "deploy_all_devices"
            /\ \A i \in 1..Len(calls) : calls[i].res # "raise") =>
               \A i \in 1..Len(devices) : devices[i].name \notin connections

\* C34: the template the gate treats as used by a device is the template its
\* configuration is rendered from: for every device that reaches rendering,
\* the name of the rendered template is the device's template field plus
\* ".j2".
C34_RendersValidatedTemplate ==
    \A i \in 1..Len(calls) :
        (calls[i].op = "generate_config" /\ calls[i].arg # "") =>
            \A k \in 1..Len(devices) :
                devices[k].name = calls[i].dev =>
                    calls[i].arg = devices[k].template \o ".j2"

\* the device_type the loaded inventory declares for a device, as the first
\* run after the load passes it to connect
DeclaredType(name) ==
    GetOr(DeviceNamed(NamedDevices(disk.devs), name).device_type, "huawei")

\* C35: runs are repeatable on one orchestrator: the device_type passed to
\* connect for a device in a second production run on the same loaded
\* inventory is the one passed in the first run, that is the one the
\* inventory declares, whatever happened in the first run.
C35_SameConnectionParameters ==
    \A i \in 1..Len(calls) :
        calls[i].op = "connect" => calls[i].arg = DeclaredType(calls[i].dev)

\* every results map the orchestrator holds or has returned
ResultMaps ==
    {run.results}
        \cup { ret.result[k].results : k \in 1..Len(ret.result) }
        \cup { deployment_history[k].results :
                 k \in 1..Len(deployment_history) }
        \cup { current_deployment[k].results :
                 k \in 1..Len(current_deployment) }

StoredResults == UNION { { m[n] : n \in DOMAIN m } : m \in ResultMaps }

\* C36 as stated: every DeviceResult placed in a results map has status
\* Success, Failed or Skipped, a Failed result has a non-empty error, and a
\* Success or Skipped result has no error.
C36_FailedHasNonEmptyError ==
    \A r \in StoredResults :
        /\ r.status \in {"success", "failed", "skipped"}
        /\ r.status = "failed" => (r.error # None /\ r.error[1] # "")
        /\ r.status \in {"success", "skipped"} => r.error = None

\* C36 (amended): every DeviceResult placed in a results map has status
\* Success, Failed or Skipped; a Failed result always has an error, which is
\* non-empty unless the result reports a caught exception, whose message it
\* carries as it is; a Success or Skipped result has no error.
C36_FailedHasError ==
    \A r \in StoredResults :
        /\ r.status \in {"success", "failed", "skipped"}
        /\ r.status = "failed" =>
              /\ r.error # None
              /\ r.error[1] = "" =>
                    r.message = "Deployment failed with exception"
        /\ r.status \in {"success", "skipped"} => r.error = None

C36_Witness ==
    /\ RunCompleted
    /\ Len(run.seq) = MaxDevices
    /\ ret.result[1].results[run.seq[1].name].status = "failed"
    /\ ret.result[1].results[run.seq[1].name].error = Some("")
    /\ ret.result[1].results[run.seq[MaxDevices].name].status = "skipped"
    /\ \E k \in 1..Len(deployment_history) :
          deployment_history[k] = ret.result[1]

\* the calls to ConnectHandler made by the last call of the manager
Attempts == { i \in 1..Len(calls) : calls[i].op = "ConnectHandler" }

\* the last call found the device's stored session alive
FoundLive ==
    \E i \in 1..Len(calls) :
        calls[i].op = "is_connected" /\ calls[i].res = "true"

ManagerReturned(op) == pc = "idle" /\ ret.op = op /\ ~ret.raised

\* C37: a call to DeviceManager.connect makes at most max_retries connection
\* attempts, makes no attempt after an authentication failure or an
\* unexpected exception, returns True only with a verified session stored for
\* the device, and returns True without a new attempt when the device already
\* has a live session.
C37_ConnectAttempts ==
    ManagerReturned("connect") =>
        LET name == calls[1].dev IN
        /\ Cardinality(Attempts) <= max_retries
        /\ \A i \in Attempts :
              calls[i].res \in {"auth", "other"} =>
                  \A j \in Attempts : j <= i
        /\ ret.ok =>
              /\ name \in connections
              /\ FoundLive \/ calls[Len(calls)].res = "verified"
        /\ (\E i \in Attempts : calls[i].res = "verified") => ret.ok
        /\ FoundLive => (ret.ok /\ Attempts = {})

C37_Witness ==
    /\ ManagerReturned("connect")
    /\ ret.ok
    /\ Cardinality(Attempts) = max_retries
    /\ calls[Len(calls)].res = "verified"
    /\ \E i \in 1..Len(calls) :
          calls[i].op = "is_connected" /\ calls[i].res = "false"

\* C38 as stated: a device in connections has connection_status true; after
\* connect returns False the device is absent from connections and has
\* status false; after disconnect returns the device is in neither
\* connections nor connection_status.
C38_StatusAfterReturn ==
    /\ \A n \in connections :
          n \in DOMAIN connection_status /\ connection_status[n]
    /\ (ManagerReturned("connect") /\ ~ret.ok) =>
          /\ calls[1].dev \notin connections
          /\ calls[1].dev \in DOMAIN connection_status
          /\ ~connection_status[calls[1].dev]
    /\ ManagerReturned("disconnect") =>
          /\ calls[1].dev \notin connections
          /\ calls[1].dev \notin DOMAIN connection_status

\* C38 (amended): a device in connections has connection_status true; after
\* connect returns False the device is absent from connections, with status
\* false if the retry loop ran and with no status or an earlier false one if
\* it did not; after disconnect returns the device is absent from
\* connections, and from connection_status as well if it was connected when
\* disconnect was called, else it has no status or an earlier false one.
C38_StatusFollowsConnections ==
    /\ \A n \in connections :
          n \in DOMAIN connection_status /\ connection_status[n]
    /\ (ManagerReturned("connect") /\ ~ret.ok) =>
          LET name == calls[1].dev IN
          /\ name \notin connections
          /\ Attempts # {} =>
                (name \in DOMAIN connection_status
                    /\ ~connection_status[name])
          /\ name \in DOMAIN connection_status => ~connection_status[name]
    /\ ManagerReturned("disconnect") =>
          LET name == calls[1].dev IN
          /\ name \notin connections
          /\ Len(calls) > 1 => name \notin DOMAIN connection_status
          /\ name \in DOMAIN connection_status => ~connection_status[name]

C38_Witness ==
    /\ ManagerReturned("disconnect")
    /\ ~ret.ok
    /\ calls[Len(calls)] =
          Call("session.disconnect", calls[1].dev, "", "raise")
    /\ calls[1].dev \notin DOMAIN connection_status
    /\ \E n \in connections : n # calls[1].dev

=============================================================================
